---- MODULE Spec2Model ----
(***************************************************************************)
(* Botnet Guard Worker: the per-request decision engine (fetch) and the    *)
(* admin API (handleAdminRequest) over a key-value store with TTLs.        *)
(*                                                                         *)
(* JavaScript strings are modelled as sequences of tokens.  IP addresses   *)
(* and numbers are sequences of single characters, so that isValidIp,      *)
(* parseInt and String() are computed as the code computes them.  Paths,   *)
(* user agents and CSV settings are sequences of words and separators      *)
(* ("/", ",", " "); startsWith / includes / split / trim / toLowerCase     *)
(* work on those sequences.                                                *)
(***************************************************************************)
EXTENDS Integers, Sequences, FiniteSets, TLC

\* Largest value of the clock (seconds); Tick is disabled from there on.
MaxTime == 1

\* Number of invocations of fetch that can be in flight together.
NumProcs == 2

\* No request is taken from an address whose counter or bot score has passed
\* these values (the counters of the code are unbounded).
MaxCount == 3
MaxScore == 6

----------------------------------------------------------------------------
\* String helpers (JavaScript String.prototype / Number built-ins)

Null == [null |-> TRUE]

DigitChars == <<"0", "1", "2", "3", "4", "5", "6", "7", "8", "9">>

IsDigit(c) == \E i \in 1..10 : DigitChars[i] = c

DigitValue(c) == (CHOOSE i \in 1..10 : DigitChars[i] = c) - 1

HexChars == {"a", "b", "c", "d", "e", "f", "A", "B", "C", "D", "E", "F"}

IsWhitespace(c) == c = " "

StartsWith(s, p) == Len(p) <= Len(s) /\ SubSeq(s, 1, Len(p)) = p

Includes(s, p) == \E i \in 1..(Len(s) - Len(p) + 1) : SubSeq(s, i, i + Len(p) - 1) = p

RECURSIVE TrimStart(_)
TrimStart(s) ==
    IF Len(s) > 0 /\ IsWhitespace(s[1]) THEN TrimStart(Tail(s)) ELSE s

RECURSIVE TrimEnd(_)
TrimEnd(s) ==
    IF Len(s) > 0 /\ IsWhitespace(s[Len(s)]) THEN TrimEnd(SubSeq(s, 1, Len(s) - 1)) ELSE s

\* trim that leaves the blanks at the end
TrimStartOnly(s) == TrimStart(s)

Trim(s) == TrimEnd(TrimStart(s))

\* toLowerCase on the words the model uses
LowerToken(t) ==
    CASE t = "WP-Login.php" -> "wp-login.php"
      [] t = "Curl" -> "curl"
      [] t = "Mozilla" -> "mozilla"
      [] OTHER -> t

ToLowerCase(s) == [i \in 1..Len(s) |-> LowerToken(s[i])]

\* s.split(sep) for a one-token separator: a sequence of strings
RECURSIVE SplitFrom(_, _, _)
SplitFrom(s, sep, cur) ==
    IF Len(s) = 0 THEN <<cur>>
    ELSE IF s[1] = sep THEN <<cur>> \o SplitFrom(Tail(s), sep, <<>>)
    ELSE SplitFrom(Tail(s), sep, Append(cur, s[1]))

Split(s, sep) == SplitFrom(s, sep, <<>>)

\* String(n) for an integer n
RECURSIVE NumberToString(_)
NumberToString(n) ==
    IF n < 0 THEN <<"-">> \o NumberToString(-n)
    ELSE IF n < 10 THEN <<DigitChars[n + 1]>>
    ELSE NumberToString(n \div 10) \o <<DigitChars[(n % 10) + 1]>>

\* Number.parseInt(s, 10): leading whitespace, an optional sign, then the
\* longest prefix of digits; NaN when there is no digit.
RECURSIVE DigitPrefixLen(_)
DigitPrefixLen(s) ==
    IF Len(s) > 0 /\ IsDigit(s[1]) THEN 1 + DigitPrefixLen(Tail(s)) ELSE 0

RECURSIVE DigitsValue(_, _)
DigitsValue(s, k) ==
    IF k = 0 THEN 0 ELSE DigitsValue(s, k - 1) * 10 + DigitValue(s[k])

NaN == [nan |-> TRUE, n |-> 0]

Num(n) == [nan |-> FALSE, n |-> n]

parseInt(s) ==
    LET t == TrimStart(s)
        signed == Len(t) > 0 /\ t[1] \in {"-", "+"}
        u == IF signed THEN Tail(t) ELSE t
        k == DigitPrefixLen(u)
    IN IF k = 0 THEN NaN
       ELSE IF signed /\ t[1] = "-" THEN Num(0 - DigitsValue(u, k))
       ELSE Num(DigitsValue(u, k))

----------------------------------------------------------------------------
\* Configuration

DEFAULTS ==
    [rateWindowSeconds |-> 60,
     rateMaxRequests |-> 180,
     burstWindowSeconds |-> 10,
     burstMaxRequests |-> 30,
     blockTtlSeconds |-> 3600,
     protectedPathPrefixes |-> << <<"*">> >>,
     adminPathPrefix |-> <<"/", "__botnet">>,
     suspiciousPathPatterns |-> << <<"/", "wp-login.php">>, <<"/", "xmlrpc.php">>,
                                   <<"/", "wp-admin">>, <<"/", ".env">>,
                                   <<"/", "cgi-bin">>, <<"/", "boaform">> >>,
     badUserAgentPatterns |-> << <<"python-requests">>, <<"curl", "/">>, <<"wget", "/">>,
                                 <<"sqlmap">>, <<"masscan">>, <<"nmap">>, <<"zgrab">>,
                                 <<"go-http-client">> >>,
     botScoreTtlSeconds |-> 900,
     botScoreBlockThreshold |-> 6,
     botScorePathWeight |-> 3,
     botScoreUserAgentWeight |-> 2]

BLOCK_KEY_PREFIX == <<"blocked:">>
COUNTER_KEY_PREFIX == <<"count:">>
BOT_SCORE_KEY_PREFIX == <<"score:">>

parsePositiveInteger(value, fallback) ==
    LET parsed == parseInt(value)
    IN IF parsed.nan \/ parsed.n <= 0 THEN fallback ELSE parsed.n

\* entries trimmed, empty entries dropped
parseCsvList(value) ==
    IF Len(value) = 0 THEN <<>>
    ELSE LET parts == Split(value, ",")
             trimmed == [i \in 1..Len(parts) |-> Trim(parts[i])]
         IN SelectSeq(trimmed, LAMBDA e : Len(e) > 0)

normalizePathPrefix(prefix) ==
    IF Len(prefix) = 0 THEN <<"/">>
    ELSE IF prefix = <<"*">> THEN <<"*">>
    ELSE IF StartsWith(prefix, <<"/">>) THEN prefix
    ELSE <<"/">> \o prefix

parsePathPrefixes(value) ==
    IF Len(value) = 0 THEN DEFAULTS.protectedPathPrefixes
    ELSE LET list == parseCsvList(value)
             parsed == [i \in 1..Len(list) |-> normalizePathPrefix(list[i])]
         IN IF Len(parsed) = 0 THEN DEFAULTS.protectedPathPrefixes ELSE parsed

parseStringPatterns(value, fallback) ==
    IF Len(value) = 0 THEN fallback
    ELSE LET list == parseCsvList(value)
             parsed == [i \in 1..Len(list) |-> ToLowerCase(list[i])]
         IN IF Len(parsed) > 0 THEN parsed ELSE fallback

SeqToSet(s) == {s[i] : i \in 1..Len(s)}

readConfig(e) ==
    [rateWindowSeconds |-> parsePositiveInteger(e.RATE_WINDOW_SECONDS, DEFAULTS.rateWindowSeconds),
     rateMaxRequests |-> parsePositiveInteger(e.RATE_MAX_REQUESTS, DEFAULTS.rateMaxRequests),
     burstWindowSeconds |-> parsePositiveInteger(e.BURST_WINDOW_SECONDS, DEFAULTS.burstWindowSeconds),
     burstMaxRequests |-> parsePositiveInteger(e.BURST_MAX_REQUESTS, DEFAULTS.burstMaxRequests),
     blockTtlSeconds |-> parsePositiveInteger(e.BLOCK_TTL_SECONDS, DEFAULTS.blockTtlSeconds),
     protectedPathPrefixes |-> parsePathPrefixes(e.PROTECTED_PATH_PREFIXES),
     adminPathPrefix |->
         normalizePathPrefix(IF Len(e.ADMIN_PATH_PREFIX) > 0 THEN e.ADMIN_PATH_PREFIX
                             ELSE DEFAULTS.adminPathPrefix),
     allowlistIps |-> SeqToSet(parseCsvList(e.ALLOWLIST_IPS)),
     suspiciousPathPatterns |->
         parseStringPatterns(e.SUSPICIOUS_PATH_PATTERNS, DEFAULTS.suspiciousPathPatterns),
     badUserAgentPatterns |->
         parseStringPatterns(e.BAD_USER_AGENT_PATTERNS, DEFAULTS.badUserAgentPatterns),
     botScoreTtlSeconds |-> parsePositiveInteger(e.BOT_SCORE_TTL_SECONDS, DEFAULTS.botScoreTtlSeconds),
     botScoreBlockThreshold |->
         parsePositiveInteger(e.BOT_SCORE_BLOCK_THRESHOLD, DEFAULTS.botScoreBlockThreshold),
     botScorePathWeight |-> parsePositiveInteger(e.BOT_SCORE_PATH_WEIGHT, DEFAULTS.botScorePathWeight),
     botScoreUserAgentWeight |->
         parsePositiveInteger(e.BOT_SCORE_USER_AGENT_WEIGHT, DEFAULTS.botScoreUserAgentWeight)]

----------------------------------------------------------------------------
\* Addresses, requests and the deployment's settings

IpA == <<"1", ".", "2", ".", "3", ".", "4">>
IpB == <<"5", ".", "6", ".", "7", ".", "8">>
IpW == <<":", ":", "1">>

\* createEnv() of the tests, with the windows, limits and TTLs scaled down to
\* the model's clock and the second address on the allowlist.
BaseEnv ==
    [BOTNET_KV |-> TRUE,
     BOTNET_ADMIN_TOKEN |-> <<"test-token">>,
     RATE_WINDOW_SECONDS |-> <<"2">>,
     RATE_MAX_REQUESTS |-> <<"2">>,
     BURST_WINDOW_SECONDS |-> <<"1">>,
     BURST_MAX_REQUESTS |-> <<"1">>,
     BLOCK_TTL_SECONDS |-> <<"1">>,
     PROTECTED_PATH_PREFIXES |-> <<"/", "api">>,
     SUSPICIOUS_PATH_PATTERNS |-> <<"/", "wp-login.php", ",", "/", "xmlrpc.php">>,
     BAD_USER_AGENT_PATTERNS |-> <<"curl", "/", ",", "python-requests">>,
     BOT_SCORE_TTL_SECONDS |-> <<"2">>,
     BOT_SCORE_BLOCK_THRESHOLD |-> <<"5">>,
     BOT_SCORE_PATH_WEIGHT |-> <<"3">>,
     BOT_SCORE_USER_AGENT_WEIGHT |-> <<"2">>,
     ADMIN_PATH_PREFIX |-> <<"/", "__botnet">>,
     ALLOWLIST_IPS |-> IpW]

\* The deployments considered: the store bound and the admin token set, the
\* store binding missing, the admin token not configured.
NoKvEnv == [BaseEnv EXCEPT !.BOTNET_KV = FALSE]

NoTokenEnv == [BaseEnv EXCEPT !.BOTNET_ADMIN_TOKEN = <<>>]

VARIABLES
    env,     \* the Worker's bindings and vars (never changes)
    config,  \* readConfig(env)
    now,     \* Date.now() in seconds
    kv,      \* MockKV.store: key -> [value, expiresAt]
    procs    \* the invocations of fetch: position, locals and response

vars == <<env, config, now, kv, procs>>

----------------------------------------------------------------------------
\* MockKV

KvLive(store, key, t) == key \in DOMAIN store /\ ~(t >= store[key].expiresAt)

\* get: only called on a live key (null otherwise)
KvValue(store, key) == store[key].value

KvPut(store, key, value, ttl, t) ==
    [k \in DOMAIN store \cup {key} |->
        IF k = key THEN [value |-> value, expiresAt |-> t + ttl] ELSE store[k]]

KvDelete(store, key) == [k \in DOMAIN store \ {key} |-> store[k]]

\* automatic expiry of the entries past their TTL
KvExpire(store, t) == [k \in {j \in DOMAIN store : KvLive(store, j, t)} |-> store[k]]

----------------------------------------------------------------------------
\* Pure helpers of the worker

\* shouldInspectPath without the inspect-all sentinel
shouldInspectPathNoSentinel(pathname, prefixes) ==
    \E i \in 1..Len(prefixes) : StartsWith(pathname, prefixes[i])

shouldInspectPath(pathname, prefixes) ==
    \/ \E i \in 1..Len(prefixes) : prefixes[i] = <<"*">>
    \/ \E i \in 1..Len(prefixes) : StartsWith(pathname, prefixes[i])

getClientIp(request) ==
    IF Len(request.cfIp) > 0 THEN Trim(request.cfIp) ELSE <<>>

\* isValidIpv4 without the range test of the octets
isValidIpv4NoRange(ip) ==
    LET parts == Split(ip, ".")
    IN /\ Len(parts) = 4
       /\ \A i \in 1..4 :
            /\ Len(parts[i]) \in 1..3
            /\ \A j \in 1..Len(parts[i]) : IsDigit(parts[i][j])

isValidIpv4(ip) ==
    LET parts == Split(ip, ".")
    IN /\ Len(parts) = 4
       /\ \A i \in 1..4 :
            /\ Len(parts[i]) \in 1..3
            /\ \A j \in 1..Len(parts[i]) : IsDigit(parts[i][j])
            /\ parseInt(parts[i]).n >= 0
            /\ parseInt(parts[i]).n <= 255

isValidIpv6(ip) ==
    /\ Includes(ip, <<":">>)
    /\ \A i \in 1..Len(ip) : IsDigit(ip[i]) \/ ip[i] \in HexChars \/ ip[i] = ":"

\* isValidIp that takes every dotted text
isValidIpAnyDotted(ip) == Includes(ip, <<".">>) \/ isValidIpv6(ip)

isValidIp(ip) == isValidIpv4(ip) \/ isValidIpv6(ip)

blockedKey(ip) == BLOCK_KEY_PREFIX \o ip

\* counterKey with one bucket per scope for all addresses
counterKeyPerScope(ip, scope, windowId) ==
    COUNTER_KEY_PREFIX \o <<scope>> \o <<":">> \o NumberToString(windowId)

counterKey(ip, scope, windowId) ==
    COUNTER_KEY_PREFIX \o <<scope>> \o <<":">> \o ip \o <<":">> \o NumberToString(windowId)

botScoreKey(ip) == BOT_SCORE_KEY_PREFIX \o ip

\* JSON.stringify / JSON.parse of a block record: a record of strings and
\* numbers comes back as it went in; any other stored text does not parse.
JSONStringify(record) == [json |-> record]

IsJSON(raw) == DOMAIN raw = {"json"}

getBlockedIpRecord(store, ip, t) ==
    IF ~KvLive(store, blockedKey(ip), t) THEN Null
    ELSE LET raw == KvValue(store, blockedKey(ip))
         IN IF IsJSON(raw) THEN raw.json
            ELSE [reason |-> <<"manual">>, detail |-> raw]

matchesAnyPattern(target, patterns) ==
    \E i \in 1..Len(patterns) : Includes(target, patterns[i])

\* nextCount that counts every request twice
nextCountDouble(store, key, t) ==
    LET current == IF KvLive(store, key, t) THEN parseInt(KvValue(store, key)) ELSE Num(0)
    IN IF current.nan THEN 1 ELSE current.n + 2

\* incrementCounter after its get: the value it will put
nextCount(store, key, t) ==
    LET current == IF KvLive(store, key, t) THEN parseInt(KvValue(store, key)) ELSE Num(0)
    IN IF current.nan THEN 1 ELSE current.n + 1

\* incrementBotScore after its get: the value it will put
nextBotScore(store, key, delta, t) ==
    LET current == IF KvLive(store, key, t) THEN parseInt(KvValue(store, key)) ELSE Num(0)
    IN (IF current.nan THEN 0 ELSE current.n) + delta

getBotScore(store, ip, t) ==
    IF ~KvLive(store, botScoreKey(ip), t) THEN 0
    ELSE LET value == parseInt(KvValue(store, botScoreKey(ip)))
         IN IF value.nan THEN 0 ELSE value.n

\* the signals of maybeScoreBotSignals
pathSignal(request) ==
    matchesAnyPattern(ToLowerCase(request.path), config.suspiciousPathPatterns)

userAgentSignal(request) ==
    LET userAgent == ToLowerCase(request.ua)
    IN Len(userAgent) = 0 \/ matchesAnyPattern(userAgent, config.badUserAgentPatterns)

scoreDelta(request) ==
    (IF pathSignal(request) THEN config.botScorePathWeight ELSE 0)
    + (IF userAgentSignal(request) THEN config.botScoreUserAgentWeight ELSE 0)

signals(request) ==
    (IF pathSignal(request) THEN <<"suspicious_path">> ELSE <<>>)
    \o (IF userAgentSignal(request)
        THEN (IF Len(request.ua) = 0 THEN <<"missing_user_agent">> ELSE <<"bad_user_agent">>)
        ELSE <<>>)

----------------------------------------------------------------------------
\* Responses

jsonResponse(body, status) == [status |-> status, via |-> "worker", body |-> body]

blockedResponse(ip, details) ==
    jsonResponse([ok |-> FALSE, blocked |-> TRUE, ip |-> ip, details |-> details], 403)

\* fetch(request): the origin's answer, passed through
originResponse == [status |-> 200, via |-> "origin", body |-> [text |-> "origin-ok"]]

\* the handler's promise rejects: no Response is returned
uncaughtException == [status |-> 0, via |-> "uncaught", body |-> Null]

----------------------------------------------------------------------------
\* Requests

Undefined == [t |-> "undefined", s |-> <<"undefined">>]

Str(s) == [t |-> "string", s |-> s]

\* a JSON number, with the text String() gives it
Number(s) == [t |-> "number", s |-> s]

NoBody == [t |-> "none", ip |-> Undefined, reason |-> Undefined, ttlSeconds |-> Undefined]

Object(ip, reason, ttlSeconds) ==
    [t |-> "object", ip |-> ip, reason |-> reason, ttlSeconds |-> ttlSeconds]

Mozilla == <<"Mozilla", "/", "5.0">>
Curl == <<"Curl", "/", "8.0.1">>

PathLogin == <<"/", "api", "/", "login">>
PathAny == <<"/", "any">>
PathWpLogin == <<"/", "api", "/", "WP-Login.php">>

Admin(route) == <<"/", "__botnet", "/", route>>

Bearer(token) == <<"Bearer", " ", token>>

Request(method, path, query, cfIp, ua, auth, body) ==
    [method |-> method, path |-> path, query |-> query, cfIp |-> cfIp, ua |-> ua,
     auth |-> auth, body |-> body]

NoRequest == Request("", <<>>, <<>>, <<>>, <<>>, <<>>, NoBody)

Get(path, cfIp, ua) == Request("GET", path, <<>>, cfIp, ua, <<>>, NoBody)

InvalidIps == {<<"1", ".", "2", ".", "3">>, <<"2", "5", "6", ".", "1", ".", "1", ".", "1">>, <<"1", ".", "2", ".", "3", ".", "x">>}

GoodAuth == Bearer("test-token")

AdminCall(method, route, query, auth, body) ==
    Request(method, Admin(route), query, IpA, Mozilla, auth, body)

JustIp(ip) == Object(Str(ip), Undefined, Undefined)

\* The site under traffic, with an operator: the inspected address on a
\* protected and on an unprotected path, a scanner, and status, block and
\* unblock of that address.
Requests ==
    {Get(PathLogin, IpA, Mozilla), Get(PathAny, IpA, Mozilla), Get(PathWpLogin, IpA, Curl),
     AdminCall("GET", "status", IpA, GoodAuth, NoBody),
     AdminCall("POST", "block", <<>>, GoodAuth, JustIp(IpA)),
     AdminCall("POST", "block", <<>>, GoodAuth,
               Object(Str(IpA), Str(<<" ", "manual-test", " ">>), Number(<<"2">>))),
     AdminCall("POST", "unblock", <<>>, GoodAuth, JustIp(IpA))}

\* isAuthorized that takes the secret under any scheme
isAuthorizedAnyScheme(request, expectedToken) ==
    IF Len(expectedToken) = 0 THEN FALSE
    ELSE Len(request.auth) > 0 /\ request.auth[Len(request.auth)] = expectedToken[1]

isAuthorized(request, expectedToken) ==
    IF Len(expectedToken) = 0 THEN FALSE
    ELSE IF ~StartsWith(request.auth, <<"Bearer", " ">>) THEN FALSE
    ELSE LET providedToken == Trim(SubSeq(request.auth, 3, Len(request.auth)))
         IN Len(providedToken) > 0 /\ providedToken = expectedToken

\* request.json(), null when the body is missing or is not JSON
readJsonBody(request) ==
    IF request.body.t \in {"none", "malformed"} THEN [NoBody EXCEPT !.t = "null"]
    ELSE request.body

----------------------------------------------------------------------------
\* Invocations of fetch

Procs == 1..NumProcs

\* pc: where the invocation awaits the store; key, next, rec: the key of the
\* pending get/put, the number to put, the block record or the status details;
\* windowCount, burstCount: the results of incrementCounter (0 before);
\* logged: console.error was called; removed: the reason of the live block
\* record that the unblock deleted (empty without one); afterUnblock: that
\* reason when the invocation answered just before this one was a completed
\* unblock of the same address (empty otherwise)
IdleProc ==
    [pc |-> "idle", req |-> NoRequest, ip |-> <<>>, key |-> <<>>, next |-> 0,
     rec |-> Null, windowCount |-> 0, burstCount |-> 0, resp |-> Null,
     logged |-> FALSE, removed |-> <<>>, afterUnblock |-> <<>>]

Resting(p) == procs[p].pc \in {"idle", "done"}

\* isAdminPath that takes only the admin prefix itself
isAdminPathExact(request) == request.path = config.adminPathPrefix

isAdminPath(request) == StartsWith(request.path, config.adminPathPrefix)

adminRoute(request, method, route) ==
    request.method = method /\ request.path = config.adminPathPrefix \o <<"/", route>>

\* a new invocation for the request
Fresh(p, request, ip) ==
    [IdleProc EXCEPT
        !.req = request,
        !.ip = ip,
        !.afterUnblock =
            IF /\ procs[p].pc = "done"
               /\ procs[p].resp.status = 200
               /\ procs[p].ip = ip
            THEN procs[p].removed
            ELSE <<>>]

Await(p, me, pc, key, next, rec) ==
    procs' = [procs EXCEPT ![p] =
        [me EXCEPT !.pc = pc, !.key = key, !.next = next, !.rec = rec]]

Return(p, me, resp, logged) ==
    procs' = [procs EXCEPT ![p] =
        [me EXCEPT !.pc = "done", !.key = <<>>, !.next = 0, !.rec = Null,
                   !.resp = resp, !.logged = logged]]

\* windowId that takes the second itself as the bucket
windowIdSeconds(windowSeconds) == now

windowId(windowSeconds) == now \div windowSeconds

InitWith(envs) ==
    /\ env \in envs
    /\ config = readConfig(env)
    /\ now = 0
    /\ kv = [k \in {} |-> Null]
    /\ procs = [p \in Procs |-> IdleProc]

\* the numbers stored for an address stay within the model's bounds
WithinBounds(ip) ==
    /\ \A scope \in {"window", "burst"}, id \in 0..MaxTime :
          LET key == counterKey(ip, scope, id)
          IN KvLive(kv, key, now) => parseInt(KvValue(kv, key)).n <= MaxCount
    /\ getBotScore(kv, ip, now) <= MaxScore

\* fetch, up to its first await: the store binding and the client address
FetchStart(p, request) ==
    /\ Resting(p)
    /\ ~isAdminPath(request)
    /\ LET ip == getClientIp(request)
       IN IF ~env.BOTNET_KV
          THEN Return(p, Fresh(p, request, <<>>), originResponse, FALSE)
          ELSE IF Len(ip) = 0 \/ ~isValidIp(ip) \/ ip \in config.allowlistIps
          THEN Return(p, Fresh(p, request, ip), originResponse, FALSE)
          ELSE WithinBounds(ip) /\ Await(p, Fresh(p, request, ip), "lookup", blockedKey(ip), 0, Null)
    /\ UNCHANGED <<env, config, now, kv>>

\* Lookup that counts the request it answers with the block
LookupCounts(p) ==
    /\ procs[p].pc = "lookup"
    /\ LET me == procs[p]
           blocked == getBlockedIpRecord(kv, me.ip, now)
           key == counterKey(me.ip, "window", windowId(config.rateWindowSeconds))
       IN IF blocked # Null
          THEN /\ kv' = KvPut(kv, key, NumberToString(nextCount(kv, key, now)),
                              config.rateWindowSeconds + 5, now)
               /\ Return(p, me, blockedResponse(me.ip, blocked), FALSE)
          ELSE /\ kv' = kv
               /\ IF ~shouldInspectPath(me.req.path, config.protectedPathPrefixes)
                  THEN Return(p, me, originResponse, FALSE)
                  ELSE Await(p, me, "windowGet", key, 0, Null)
    /\ UNCHANGED <<env, config, now>>

\* Lookup with the path test ahead of the block record
LookupPathFirst(p) ==
    /\ procs[p].pc = "lookup"
    /\ LET me == procs[p]
           blocked == getBlockedIpRecord(kv, me.ip, now)
       IN IF ~shouldInspectPath(me.req.path, config.protectedPathPrefixes)
          THEN Return(p, me, originResponse, FALSE)
          ELSE IF blocked # Null
          THEN Return(p, me, blockedResponse(me.ip, blocked), FALSE)
          ELSE Await(p, me, "windowGet",
                     counterKey(me.ip, "window", windowId(config.rateWindowSeconds)), 0, Null)
    /\ UNCHANGED <<env, config, now, kv>>

\* getBlockedIpRecord resolves; then blockedResponse, or fetch(request) for a
\* path that is not inspected, or incrementCounter('window') up to its get
Lookup(p) ==
    /\ procs[p].pc = "lookup"
    /\ LET me == procs[p]
           blocked == getBlockedIpRecord(kv, me.ip, now)
       IN IF blocked # Null
          THEN Return(p, me, blockedResponse(me.ip, blocked), FALSE)
          ELSE IF ~shouldInspectPath(me.req.path, config.protectedPathPrefixes)
          THEN Return(p, me, originResponse, FALSE)
          ELSE Await(p, me, "windowGet",
                     counterKey(me.ip, "window", windowId(config.rateWindowSeconds)), 0, Null)
    /\ UNCHANGED <<env, config, now, kv>>

\* incrementCounter('window'): kv.get resolves
WindowGet(p) ==
    /\ procs[p].pc = "windowGet"
    /\ LET me == procs[p]
       IN Await(p, me, "windowPut", me.key, nextCount(kv, me.key, now), Null)
    /\ UNCHANGED <<env, config, now, kv>>

\* WindowPut that blocks on reaching the limit
WindowPutAtLimit(p) ==
    /\ procs[p].pc = "windowPut"
    /\ LET me == procs[p]
           windowCount == me.next
           counted == [me EXCEPT !.windowCount = windowCount]
       IN /\ kv' = KvPut(kv, me.key, NumberToString(me.next), config.rateWindowSeconds + 5, now)
          /\ IF windowCount >= config.rateMaxRequests
             THEN Await(p, counted, "blockPut", blockedKey(me.ip), 0,
                        [reason |-> <<"rate_limit_window">>,
                         blockedAt |-> now,
                         windowSeconds |-> config.rateWindowSeconds,
                         maxRequests |-> config.rateMaxRequests,
                         observedCount |-> windowCount,
                         path |-> me.req.path])
             ELSE Await(p, counted, "burstGet",
                        counterKey(me.ip, "burst", windowId(config.burstWindowSeconds)), 0, Null)
    /\ UNCHANGED <<env, config, now>>

\* incrementCounter('window'): kv.put resolves; then the window check
WindowPut(p) ==
    /\ procs[p].pc = "windowPut"
    /\ LET me == procs[p]
           windowCount == me.next
           counted == [me EXCEPT !.windowCount = windowCount]
       IN /\ kv' = KvPut(kv, me.key, NumberToString(me.next), config.rateWindowSeconds + 5, now)
          /\ IF windowCount > config.rateMaxRequests
             THEN Await(p, counted, "blockPut", blockedKey(me.ip), 0,
                        [reason |-> <<"rate_limit_window">>,
                         blockedAt |-> now,
                         windowSeconds |-> config.rateWindowSeconds,
                         maxRequests |-> config.rateMaxRequests,
                         observedCount |-> windowCount,
                         path |-> me.req.path])
             ELSE Await(p, counted, "burstGet",
                        counterKey(me.ip, "burst", windowId(config.burstWindowSeconds)), 0, Null)
    /\ UNCHANGED <<env, config, now>>

\* incrementCounter('burst'): kv.get resolves
BurstGet(p) ==
    /\ procs[p].pc = "burstGet"
    /\ LET me == procs[p]
       IN Await(p, me, "burstPut", me.key, nextCount(kv, me.key, now), Null)
    /\ UNCHANGED <<env, config, now, kv>>

\* BurstPut that holds the stored score against the threshold for a request
\* without signals
BurstPutChecksStored(p) ==
    /\ procs[p].pc = "burstPut"
    /\ LET me == procs[p]
           burstCount == me.next
           counted == [me EXCEPT !.burstCount = burstCount]
           score == getBotScore(kv, me.ip, now)
       IN /\ kv' = KvPut(kv, me.key, NumberToString(me.next), config.burstWindowSeconds + 5, now)
          /\ IF burstCount > config.burstMaxRequests
             THEN Await(p, counted, "blockPut", blockedKey(me.ip), 0,
                        [reason |-> <<"rate_limit_burst">>,
                         blockedAt |-> now,
                         windowSeconds |-> config.burstWindowSeconds,
                         maxRequests |-> config.burstMaxRequests,
                         observedCount |-> burstCount,
                         path |-> me.req.path])
             ELSE IF scoreDelta(me.req) <= 0
             THEN IF score >= config.botScoreBlockThreshold
                  THEN Await(p, counted, "blockPut", blockedKey(me.ip), 0,
                             [reason |-> <<"bot_signature">>,
                              blockedAt |-> now,
                              score |-> score,
                              blockThreshold |-> config.botScoreBlockThreshold,
                              scoreDelta |-> 0,
                              signals |-> signals(me.req),
                              path |-> me.req.path])
                  ELSE Return(p, counted, originResponse, FALSE)
             ELSE Await(p, counted, "scoreGet", botScoreKey(me.ip), 0, Null)
    /\ UNCHANGED <<env, config, now>>

\* BurstPut that enters the scorer unless the delta is negative
BurstPutScoresZero(p) ==
    /\ procs[p].pc = "burstPut"
    /\ LET me == procs[p]
           burstCount == me.next
           counted == [me EXCEPT !.burstCount = burstCount]
       IN /\ kv' = KvPut(kv, me.key, NumberToString(me.next), config.burstWindowSeconds + 5, now)
          /\ IF burstCount > config.burstMaxRequests
             THEN Await(p, counted, "blockPut", blockedKey(me.ip), 0,
                        [reason |-> <<"rate_limit_burst">>,
                         blockedAt |-> now,
                         windowSeconds |-> config.burstWindowSeconds,
                         maxRequests |-> config.burstMaxRequests,
                         observedCount |-> burstCount,
                         path |-> me.req.path])
             ELSE IF scoreDelta(me.req) < 0
             THEN Return(p, counted, originResponse, FALSE)
             ELSE Await(p, counted, "scoreGet", botScoreKey(me.ip), 0, Null)
    /\ UNCHANGED <<env, config, now>>

\* BurstPut that compares with the limit of the rate window
BurstPutRateLimit(p) ==
    /\ procs[p].pc = "burstPut"
    /\ LET me == procs[p]
           burstCount == me.next
           counted == [me EXCEPT !.burstCount = burstCount]
       IN /\ kv' = KvPut(kv, me.key, NumberToString(me.next), config.burstWindowSeconds + 5, now)
          /\ IF burstCount > config.rateMaxRequests
             THEN Await(p, counted, "blockPut", blockedKey(me.ip), 0,
                        [reason |-> <<"rate_limit_burst">>,
                         blockedAt |-> now,
                         windowSeconds |-> config.burstWindowSeconds,
                         maxRequests |-> config.burstMaxRequests,
                         observedCount |-> burstCount,
                         path |-> me.req.path])
             ELSE IF scoreDelta(me.req) <= 0
             THEN Return(p, counted, originResponse, FALSE)
             ELSE Await(p, counted, "scoreGet", botScoreKey(me.ip), 0, Null)
    /\ UNCHANGED <<env, config, now>>

\* incrementCounter('burst'): kv.put resolves; then the burst check and
\* maybeScoreBotSignals up to the get of incrementBotScore
BurstPut(p) ==
    /\ procs[p].pc = "burstPut"
    /\ LET me == procs[p]
           burstCount == me.next
           counted == [me EXCEPT !.burstCount = burstCount]
       IN /\ kv' = KvPut(kv, me.key, NumberToString(me.next), config.burstWindowSeconds + 5, now)
          /\ IF burstCount > config.burstMaxRequests
             THEN Await(p, counted, "blockPut", blockedKey(me.ip), 0,
                        [reason |-> <<"rate_limit_burst">>,
                         blockedAt |-> now,
                         windowSeconds |-> config.burstWindowSeconds,
                         maxRequests |-> config.burstMaxRequests,
                         observedCount |-> burstCount,
                         path |-> me.req.path])
             ELSE IF scoreDelta(me.req) <= 0
             THEN Return(p, counted, originResponse, FALSE)
             ELSE Await(p, counted, "scoreGet", botScoreKey(me.ip), 0, Null)
    /\ UNCHANGED <<env, config, now>>

\* incrementBotScore: kv.get resolves
ScoreGet(p) ==
    /\ procs[p].pc = "scoreGet"
    /\ LET me == procs[p]
       IN Await(p, me, "scorePut", me.key,
                nextBotScore(kv, me.key, scoreDelta(me.req), now), Null)
    /\ UNCHANGED <<env, config, now, kv>>

\* ScorePut that blocks only above the threshold
ScorePutAboveThreshold(p) ==
    /\ procs[p].pc = "scorePut"
    /\ LET me == procs[p]
           score == me.next
       IN /\ kv' = KvPut(kv, me.key, NumberToString(me.next), config.botScoreTtlSeconds, now)
          /\ IF score <= config.botScoreBlockThreshold
             THEN Return(p, me, originResponse, FALSE)
             ELSE Await(p, me, "blockPut", blockedKey(me.ip), 0,
                        [reason |-> <<"bot_signature">>,
                         blockedAt |-> now,
                         score |-> score,
                         blockThreshold |-> config.botScoreBlockThreshold,
                         scoreDelta |-> scoreDelta(me.req),
                         signals |-> signals(me.req),
                         path |-> me.req.path])
    /\ UNCHANGED <<env, config, now>>

\* incrementBotScore: kv.put resolves; then the threshold check
ScorePut(p) ==
    /\ procs[p].pc = "scorePut"
    /\ LET me == procs[p]
           score == me.next
       IN /\ kv' = KvPut(kv, me.key, NumberToString(me.next), config.botScoreTtlSeconds, now)
          /\ IF score < config.botScoreBlockThreshold
             THEN Return(p, me, originResponse, FALSE)
             ELSE Await(p, me, "blockPut", blockedKey(me.ip), 0,
                        [reason |-> <<"bot_signature">>,
                         blockedAt |-> now,
                         score |-> score,
                         blockThreshold |-> config.botScoreBlockThreshold,
                         scoreDelta |-> scoreDelta(me.req),
                         signals |-> signals(me.req),
                         path |-> me.req.path])
    /\ UNCHANGED <<env, config, now>>

\* BlockPut that goes on to the burst check after a block for the rate window
BlockPutContinues(p) ==
    /\ procs[p].pc = "blockPut"
    /\ LET me == procs[p]
       IN /\ kv' = KvPut(kv, me.key, JSONStringify(me.rec), config.blockTtlSeconds, now)
          /\ IF me.rec.reason = <<"rate_limit_window">>
             THEN Await(p, me, "burstGet",
                        counterKey(me.ip, "burst", windowId(config.burstWindowSeconds)), 0, Null)
             ELSE Return(p, me, blockedResponse(me.ip, me.rec), FALSE)
    /\ UNCHANGED <<env, config, now>>

\* blockIp resolves; then blockedResponse
BlockPut(p) ==
    /\ procs[p].pc = "blockPut"
    /\ LET me == procs[p]
       IN /\ kv' = KvPut(kv, me.key, JSONStringify(me.rec), config.blockTtlSeconds, now)
          /\ Return(p, me, blockedResponse(me.ip, me.rec), FALSE)
    /\ UNCHANGED <<env, config, now>>

FetchAwaits ==
    {"lookup", "windowGet", "windowPut", "burstGet", "burstPut", "scoreGet", "scorePut", "blockPut"}

\* FetchStoreFails where the put of the block record lands before it rejects
FetchStoreFailsAfterWrite(p) ==
    /\ procs[p].pc \in FetchAwaits
    /\ kv' = IF procs[p].pc = "blockPut"
             THEN KvPut(kv, procs[p].key, JSONStringify(procs[p].rec), config.blockTtlSeconds, now)
             ELSE kv
    /\ Return(p, procs[p], originResponse, TRUE)
    /\ UNCHANGED <<env, config, now>>

\* FetchStoreFails without the catch
FetchStoreFailsUncaught(p) ==
    /\ procs[p].pc \in FetchAwaits
    /\ Return(p, procs[p], uncaughtException, TRUE)
    /\ UNCHANGED <<env, config, now, kv>>

\* the awaited store operation rejects: catch, console.error, fetch(request)
FetchStoreFails(p) ==
    /\ procs[p].pc \in FetchAwaits
    /\ Return(p, procs[p], originResponse, TRUE)
    /\ UNCHANGED <<env, config, now, kv>>

\* the clock; the store drops the entries past their TTL
Tick ==
    /\ now < MaxTime
    /\ now' = now + 1
    /\ kv' = KvExpire(kv, now + 1)
    /\ UNCHANGED <<env, config, procs>>

----------------------------------------------------------------------------
\* The admin API

errorBody(error) == [ok |-> FALSE, error |-> error]

\* AdminStart with the authorization test ahead of the health route
AdminStartAuthFirst(p, request) ==
    /\ Resting(p)
    /\ isAdminPath(request)
    /\ IF ~env.BOTNET_KV
       THEN Return(p, Fresh(p, request, <<>>), jsonResponse(errorBody("BOTNET_KV binding is missing"), 500), FALSE)
       ELSE IF ~isAuthorized(request, env.BOTNET_ADMIN_TOKEN)
       THEN Return(p, Fresh(p, request, <<>>), jsonResponse(errorBody("unauthorized"), 401), FALSE)
       ELSE IF adminRoute(request, "GET", "health")
       THEN Return(p, Fresh(p, request, <<>>), jsonResponse([ok |-> TRUE, service |-> "botnet-guard"], 200), FALSE)
       ELSE IF adminRoute(request, "GET", "status")
       THEN LET ip == request.query
            IN IF ~isValidIp(ip)
               THEN Return(p, Fresh(p, request, ip), jsonResponse(errorBody("valid ip is required"), 400), FALSE)
               ELSE Await(p, Fresh(p, request, ip), "statusBlock", blockedKey(ip), 0, Null)
       ELSE IF adminRoute(request, "POST", "block")
       THEN LET body == readJsonBody(request)
                ip == IF body.ip.t = "string" THEN Trim(body.ip.s) ELSE <<>>
                ttlSeconds == parsePositiveInteger(body.ttlSeconds.s, config.blockTtlSeconds)
                record ==
                    [reason |-> IF body.reason.t = "string" /\ Len(Trim(body.reason.s)) > 0
                                THEN Trim(body.reason.s) ELSE <<"manual">>,
                     blockedAt |-> now,
                     actor |-> "admin_api"]
            IN IF body.t # "object"
               THEN Return(p, Fresh(p, request, <<>>), jsonResponse(errorBody("invalid json body"), 400), FALSE)
               ELSE IF ~isValidIp(ip)
               THEN Return(p, Fresh(p, request, ip), jsonResponse(errorBody("valid ip is required"), 400), FALSE)
               ELSE Await(p, Fresh(p, request, ip), "adminBlockPut", blockedKey(ip), ttlSeconds, record)
       ELSE IF adminRoute(request, "POST", "unblock") \/ adminRoute(request, "DELETE", "unblock")
       THEN LET body == readJsonBody(request)
                ip == IF body.t # "null" /\ body.ip.t = "string" THEN Trim(body.ip.s) ELSE <<>>
            IN IF ~isValidIp(ip)
               THEN Return(p, Fresh(p, request, ip), jsonResponse(errorBody("valid ip is required"), 400), FALSE)
               ELSE Await(p, Fresh(p, request, ip), "unblockBlock", blockedKey(ip), 0, Null)
       ELSE Return(p, Fresh(p, request, <<>>), jsonResponse(errorBody("not_found"), 404), FALSE)
    /\ UNCHANGED <<env, config, now, kv>>

\* handleAdminRequest, up to its first await of the store
AdminStart(p, request) ==
    /\ Resting(p)
    /\ isAdminPath(request)
    /\ IF ~env.BOTNET_KV
       THEN Return(p, Fresh(p, request, <<>>), jsonResponse(errorBody("BOTNET_KV binding is missing"), 500), FALSE)
       ELSE IF adminRoute(request, "GET", "health")
       THEN Return(p, Fresh(p, request, <<>>), jsonResponse([ok |-> TRUE, service |-> "botnet-guard"], 200), FALSE)
       ELSE IF ~isAuthorized(request, env.BOTNET_ADMIN_TOKEN)
       THEN Return(p, Fresh(p, request, <<>>), jsonResponse(errorBody("unauthorized"), 401), FALSE)
       ELSE IF adminRoute(request, "GET", "status")
       THEN LET ip == request.query
            IN IF ~isValidIp(ip)
               THEN Return(p, Fresh(p, request, ip), jsonResponse(errorBody("valid ip is required"), 400), FALSE)
               ELSE Await(p, Fresh(p, request, ip), "statusBlock", blockedKey(ip), 0, Null)
       ELSE IF adminRoute(request, "POST", "block")
       THEN LET body == readJsonBody(request)
                ip == IF body.ip.t = "string" THEN Trim(body.ip.s) ELSE <<>>
                ttlSeconds == parsePositiveInteger(body.ttlSeconds.s, config.blockTtlSeconds)
                record ==
                    [reason |-> IF body.reason.t = "string" /\ Len(Trim(body.reason.s)) > 0
                                THEN Trim(body.reason.s) ELSE <<"manual">>,
                     blockedAt |-> now,
                     actor |-> "admin_api"]
            IN IF body.t # "object"
               THEN Return(p, Fresh(p, request, <<>>), jsonResponse(errorBody("invalid json body"), 400), FALSE)
               ELSE IF ~isValidIp(ip)
               THEN Return(p, Fresh(p, request, ip), jsonResponse(errorBody("valid ip is required"), 400), FALSE)
               ELSE Await(p, Fresh(p, request, ip), "adminBlockPut", blockedKey(ip), ttlSeconds, record)
       ELSE IF adminRoute(request, "POST", "unblock") \/ adminRoute(request, "DELETE", "unblock")
       THEN LET body == readJsonBody(request)
                ip == IF body.t # "null" /\ body.ip.t = "string" THEN Trim(body.ip.s) ELSE <<>>
            IN IF ~isValidIp(ip)
               THEN Return(p, Fresh(p, request, ip), jsonResponse(errorBody("valid ip is required"), 400), FALSE)
               ELSE Await(p, Fresh(p, request, ip), "unblockBlock", blockedKey(ip), 0, Null)
       ELSE Return(p, Fresh(p, request, <<>>), jsonResponse(errorBody("not_found"), 404), FALSE)
    /\ UNCHANGED <<env, config, now, kv>>

\* status: getBlockedIpRecord resolves
StatusBlockGet(p) ==
    /\ procs[p].pc = "statusBlock"
    /\ LET me == procs[p]
       IN Await(p, me, "statusScore", botScoreKey(me.ip), 0,
                getBlockedIpRecord(kv, me.ip, now))
    /\ UNCHANGED <<env, config, now, kv>>

\* status: getBotScore resolves
StatusScoreGet(p) ==
    /\ procs[p].pc = "statusScore"
    /\ LET me == procs[p]
       IN Return(p, me,
                 jsonResponse([ok |-> TRUE, ip |-> me.ip, blocked |-> me.rec # Null,
                               details |-> me.rec, botScore |-> getBotScore(kv, me.ip, now)], 200),
                 FALSE)
    /\ UNCHANGED <<env, config, now, kv>>

\* block: blockIp resolves
AdminBlockPut(p) ==
    /\ procs[p].pc = "adminBlockPut"
    /\ LET me == procs[p]
           ttlSeconds == me.next
       IN /\ kv' = KvPut(kv, me.key, JSONStringify(me.rec), ttlSeconds, now)
          /\ Return(p, me,
                    jsonResponse([ok |-> TRUE, blocked |-> TRUE, ip |-> me.ip,
                                  ttlSeconds |-> ttlSeconds, details |-> me.rec], 200),
                    FALSE)
    /\ UNCHANGED <<env, config, now>>

\* UnblockDeleteBlock that answers 404 for an address without a record
UnblockDeleteBlockStrict(p) ==
    /\ procs[p].pc = "unblockBlock"
    /\ LET me == procs[p]
       IN IF ~KvLive(kv, me.key, now)
          THEN kv' = kv /\ Return(p, me, jsonResponse(errorBody("not_found"), 404), FALSE)
          ELSE /\ kv' = KvDelete(kv, me.key)
               /\ Await(p, [me EXCEPT !.removed = getBlockedIpRecord(kv, me.ip, now).reason],
                        "unblockScore", botScoreKey(me.ip), 0, Null)
    /\ UNCHANGED <<env, config, now>>

\* unblock: delete(blockedKey) resolves
UnblockDeleteBlock(p) ==
    /\ procs[p].pc = "unblockBlock"
    /\ LET me == procs[p]
       IN /\ kv' = KvDelete(kv, me.key)
          /\ Await(p, [me EXCEPT !.removed = IF KvLive(kv, me.key, now)
                                              THEN getBlockedIpRecord(kv, me.ip, now).reason
                                              ELSE <<>>],
                   "unblockScore", botScoreKey(me.ip), 0, Null)
    /\ UNCHANGED <<env, config, now>>

\* UnblockDeleteScore that clears the counters of the address as well
UnblockDeleteScoreAndCounters(p) ==
    /\ procs[p].pc = "unblockScore"
    /\ LET me == procs[p]
           counters == {k \in DOMAIN kv :
                          \E scope \in {"window", "burst"}, id \in 0..MaxTime :
                              k = counterKey(me.ip, scope, id)}
           kept == DOMAIN kv \ (counters \cup {me.key})
       IN /\ kv' = [k \in kept |-> kv[k]]
          /\ Return(p, me,
                    jsonResponse([ok |-> TRUE, blocked |-> FALSE, ip |-> me.ip], 200), FALSE)
    /\ UNCHANGED <<env, config, now>>

\* unblock: delete(botScoreKey) resolves
UnblockDeleteScore(p) ==
    /\ procs[p].pc = "unblockScore"
    /\ LET me == procs[p]
       IN /\ kv' = KvDelete(kv, me.key)
          /\ Return(p, me,
                    jsonResponse([ok |-> TRUE, blocked |-> FALSE, ip |-> me.ip], 200), FALSE)
    /\ UNCHANGED <<env, config, now>>

AdminAwaits == {"statusBlock", "statusScore", "adminBlockPut", "unblockBlock", "unblockScore"}

\* the awaited store operation rejects: handleAdminRequest has no catch
AdminStoreFails(p) ==
    /\ procs[p].pc \in AdminAwaits
    /\ Return(p, procs[p], uncaughtException, FALSE)
    /\ UNCHANGED <<env, config, now, kv>>

----------------------------------------------------------------------------
\* Specifications

FetchStep(p) ==
    \/ Lookup(p)
    \/ WindowGet(p)
    \/ WindowPut(p)
    \/ BurstGet(p)
    \/ BurstPut(p)
    \/ ScoreGet(p)
    \/ ScorePut(p)
    \/ BlockPut(p)
    \/ FetchStoreFails(p)

AdminStep(p) ==
    \/ StatusBlockGet(p)
    \/ StatusScoreGet(p)
    \/ AdminBlockPut(p)
    \/ UnblockDeleteBlock(p)
    \/ UnblockDeleteScore(p)
    \/ AdminStoreFails(p)

\* Requests arrive one after the other: each is answered before the next.
Serve(requests) ==
    \E request \in requests :
        /\ \A q \in Procs : Resting(q)
        /\ FetchStart(1, request) \/ AdminStart(1, request)

Init == InitWith({BaseEnv})

Next ==
    \/ Serve(Requests)
    \/ FetchStep(1)
    \/ AdminStep(1)
    \/ Tick

Spec == Init /\ [][Next]_vars

\* Traffic with every combination of bot signals, under limits that let three
\* requests of one second reach the scorer.
ScorerEnv == [BaseEnv EXCEPT !.RATE_MAX_REQUESTS = <<"3">>, !.BURST_MAX_REQUESTS = <<"3">>]

ScorerRequests ==
    {Get(PathWpLogin, IpA, Curl), Get(PathWpLogin, IpA, Mozilla), Get(PathLogin, IpA, Curl),
     Get(PathLogin, IpA, <<>>), Get(PathLogin, IpA, Mozilla)}

InitScorer == InitWith({ScorerEnv})

NextScorer ==
    \/ \E request \in ScorerRequests : (\A q \in Procs : Resting(q)) /\ FetchStart(1, request)
    \/ FetchStep(1)
    \/ Tick

SpecScorer == InitScorer /\ [][NextScorer]_vars

\* Requests without a usable client address or from the allowlisted address,
\* with and without the store binding; the operator blocks the allowlisted
\* address, and the inspected address sends traffic of its own.
BypassRequests ==
    {Get(PathWpLogin, IpW, Curl), Get(PathLogin, <<" ">> \o IpW \o <<" ">>, Mozilla),
     Get(PathWpLogin, <<>>, Curl), Get(PathLogin, <<" ">>, Mozilla),
     Get(PathLogin, IpA, Mozilla), Get(PathWpLogin, IpA, Curl),
     AdminCall("POST", "block", <<>>, GoodAuth, JustIp(IpW))}
    \cup {Get(PathWpLogin, ip, Curl) : ip \in InvalidIps}

InitBypass == InitWith({BaseEnv, NoKvEnv})

NextBypass ==
    \/ Serve(BypassRequests)
    \/ FetchStep(1)
    \/ AdminBlockPut(1)
    \/ AdminStoreFails(1)
    \/ Tick

SpecBypass == InitBypass /\ [][NextBypass]_vars

\* The admin API under every kind of credentials, with and without a
\* configured secret.
BadAuths ==
    {<<>>, Bearer("wrong-token"), <<"Basic", " ", "test-token">>, <<"Bearer", " ">>}

AuthRequests ==
    {AdminCall(call[1], call[2], call[3], auth, call[4]) :
        call \in {<<"GET", "status", IpA, NoBody>>,
                  <<"POST", "block", <<>>, JustIp(IpA)>>,
                  <<"POST", "unblock", <<>>, JustIp(IpA)>>,
                  <<"GET", "health", <<>>, NoBody>>,
                  <<"POST", "health", <<>>, NoBody>>,
                  <<"GET", "nosuch", <<>>, NoBody>>},
        auth \in BadAuths \cup {GoodAuth}}

InitAuth == InitWith({BaseEnv, NoTokenEnv})

NextAuth ==
    \/ \E request \in AuthRequests : (\A q \in Procs : Resting(q)) /\ AdminStart(1, request)
    \/ AdminStep(1)
    \/ Tick

SpecAuth == InitAuth /\ [][NextAuth]_vars

\* The operator's block with every kind of body, on an address that sends
\* scanner traffic.
JsonBodies ==
    {JustIp(IpA),
     Object(Str(IpA), Str(<<" ", "manual-test", " ">>), Number(<<"2">>)),
     Object(Str(IpA), Str(<<" ">>), Number(<<"0">>)),
     Object(Str(IpA), Number(<<"7">>), Str(<<"2", "x">>)),
     Object(Str(IpA), Str(<<"abuse">>), Number(<<"2", ".", "5">>)),
     Object(Str(<<" ">> \o IpA), Undefined, Number(<<"-", "1">>)),
     Object(Str(<<"1", ".", "2", ".", "3">>), Undefined, Undefined),
     Object(Number(<<"7">>), Undefined, Undefined),
     Object(Undefined, Undefined, Undefined),
     [NoBody EXCEPT !.t = "malformed"],
     [NoBody EXCEPT !.t = "number"],
     NoBody}

AdminRequests ==
    {AdminCall("POST", "block", <<>>, GoodAuth, body) : body \in JsonBodies}
    \cup {AdminCall("DELETE", "unblock", <<>>, GoodAuth, JustIp(IpA)),
          AdminCall("GET", "status", IpA, GoodAuth, NoBody),
          Get(PathWpLogin, IpA, Mozilla)}

InitAdmin == InitWith({BaseEnv})

NextAdmin ==
    \/ Serve(AdminRequests)
    \/ FetchStep(1)
    \/ AdminStep(1)
    \/ Tick

SpecAdmin == InitAdmin /\ [][NextAdmin]_vars

\* The operator's calls without a usable ip or body, on an address that is
\* blocked by hand and sends scanner traffic.
InvalidBodies ==
    {[NoBody EXCEPT !.t = "malformed"], NoBody,
     Object(Undefined, Undefined, Undefined),
     Object(Number(<<"7">>), Undefined, Undefined),
     Object(Str(<<"2", "5", "6", ".", "1", ".", "1", ".", "1">>), Str(<<"abuse">>), Number(<<"2">>))}

InvalidRequests ==
    {AdminCall("GET", "status", ip, GoodAuth, NoBody) : ip \in {<<>>} \cup InvalidIps}
    \cup {AdminCall("POST", "block", <<>>, GoodAuth, body) :
              body \in InvalidBodies \cup {[NoBody EXCEPT !.t = "number"]}}
    \cup {AdminCall(method, "unblock", <<>>, GoodAuth, body) :
              method \in {"POST", "DELETE"}, body \in InvalidBodies}

InitInvalid == InitWith({BaseEnv})

NextInvalid ==
    \/ Serve(InvalidRequests
                \cup {AdminCall("POST", "block", <<>>, GoodAuth, JustIp(IpA)),
                      Get(PathWpLogin, IpA, Mozilla)})
    \/ FetchStep(1)
    \/ AdminBlockPut(1)
    \/ AdminStoreFails(1)
    \/ Tick

SpecInvalid == InitInvalid /\ [][NextInvalid]_vars

\* The admin API under every kind of credentials, with and without a
\* configured secret, with and without the store binding.
InitHealth == InitWith({BaseEnv, NoTokenEnv, NoKvEnv})

SpecHealth == InitHealth /\ [][NextAuth]_vars

\* Requests of one address in flight together, each invocation serving one
\* request, in a rate window that outlasts the clock.
ConcurrentEnv ==
    [BaseEnv EXCEPT !.RATE_WINDOW_SECONDS = <<"9">>, !.RATE_MAX_REQUESTS = <<"1">>]

ConcurrentRequests ==
    {Get(PathLogin, IpA, Mozilla), Get(PathLogin, IpA, Curl), Get(PathWpLogin, IpA, Mozilla)}

InitConcurrent == InitWith({ConcurrentEnv})

NextConcurrent ==
    \/ \E p \in Procs, request \in ConcurrentRequests :
          procs[p].pc = "idle" /\ FetchStart(p, request)
    \/ \E p \in Procs :
          \/ Lookup(p)
          \/ WindowGet(p)
          \/ WindowPut(p)
          \/ BurstGet(p)
          \/ BurstPut(p)
          \/ ScoreGet(p)
          \/ ScorePut(p)
          \/ BlockPut(p)
    \/ Tick

SpecConcurrent == InitConcurrent /\ [][NextConcurrent]_vars

\* Traffic to protected and unprotected paths, with and without bot signals,
\* under a protected-prefix list with and without the inspect-all sentinel.
SentinelEnv == [BaseEnv EXCEPT !.PROTECTED_PATH_PREFIXES = <<"/", "api", ",", " ", "*">>]

PathWpRoot == <<"/", "wp-login.php">>

PathRequests ==
    {Get(PathAny, IpA, Mozilla), Get(PathAny, IpA, Curl), Get(PathWpRoot, IpA, Mozilla),
     Get(PathLogin, IpA, Mozilla)}

InitPaths == InitWith({BaseEnv, SentinelEnv})

NextPaths ==
    \/ \E request \in PathRequests : (\A q \in Procs : Resting(q)) /\ FetchStart(1, request)
    \/ FetchStep(1)
    \/ Tick

SpecPaths == InitPaths /\ [][NextPaths]_vars

\* The operator calls from the inspected address with a scripted client, on
\* the routes and on a path under the admin prefix that is no route, while
\* every path is inspected and the address sends traffic of its own.
CallerRequests ==
    {Request("GET", Admin("status"), IpA, IpA, Curl, GoodAuth, NoBody),
     Request("GET", Admin("wp-login.php"), <<>>, IpA, Curl, GoodAuth, NoBody),
     Request("GET", Admin("wp-login.php"), <<>>, IpA, Curl, <<>>, NoBody),
     Request("GET", Admin("health"), <<>>, IpA, Curl, <<>>, NoBody),
     Request("POST", Admin("block"), <<>>, IpA, Curl, GoodAuth, JustIp(IpA)),
     Request("POST", Admin("unblock"), <<>>, IpA, Curl, GoodAuth, JustIp(IpA)),
     Get(PathLogin, IpA, Mozilla), Get(PathWpRoot, IpA, Curl)}

InitCaller == InitWith({SentinelEnv})

NextCaller ==
    \/ Serve(CallerRequests)
    \/ FetchStep(1)
    \/ AdminStep(1)
    \/ Tick

SpecCaller == InitCaller /\ [][NextCaller]_vars

\* The operator blocks or unblocks the address while a request of that
\* address is in flight: one invocation per slot, interleaved at every await.
RaceRequests ==
    {Get(PathWpLogin, IpA, Curl), Get(PathLogin, IpA, Mozilla),
     AdminCall("POST", "block", <<>>, GoodAuth, Object(Str(IpA), Undefined, Number(<<"2">>))),
     AdminCall("POST", "unblock", <<>>, GoodAuth, JustIp(IpA))}

InitRace == InitWith({BaseEnv})

NextRace ==
    \/ \E p \in Procs, request \in RaceRequests :
          procs[p].pc = "idle" /\ (FetchStart(p, request) \/ AdminStart(p, request))
    \/ \E p \in Procs :
          \/ Lookup(p)
          \/ WindowGet(p)
          \/ WindowPut(p)
          \/ BurstGet(p)
          \/ BurstPut(p)
          \/ ScoreGet(p)
          \/ ScorePut(p)
          \/ BlockPut(p)
          \/ AdminBlockPut(p)
          \/ UnblockDeleteBlock(p)
          \/ UnblockDeleteScore(p)
    \/ Tick

SpecRace == InitRace /\ [][NextRace]_vars

\* Two addresses under traffic at once, and the operator's status, block and
\* unblock naming one of them: one invocation per slot, interleaved at every
\* await.
IsolationRequests ==
    {Get(PathWpLogin, IpA, Curl), Get(PathLogin, IpA, Mozilla),
     Get(PathWpLogin, IpB, Curl), Get(PathLogin, IpB, Mozilla),
     AdminCall("GET", "status", IpB, GoodAuth, NoBody),
     AdminCall("POST", "block", <<>>, GoodAuth, JustIp(IpB)),
     AdminCall("POST", "unblock", <<>>, GoodAuth, JustIp(IpA))}

InitIsolation == InitWith({BaseEnv})

NextIsolation ==
    \/ \E p \in Procs, request \in IsolationRequests :
          procs[p].pc = "idle" /\ (FetchStart(p, request) \/ AdminStart(p, request))
    \/ \E p \in Procs :
          \/ Lookup(p)
          \/ WindowGet(p)
          \/ WindowPut(p)
          \/ BurstGet(p)
          \/ BurstPut(p)
          \/ ScoreGet(p)
          \/ ScorePut(p)
          \/ BlockPut(p)
          \/ StatusBlockGet(p)
          \/ StatusScoreGet(p)
          \/ AdminBlockPut(p)
          \/ UnblockDeleteBlock(p)
          \/ UnblockDeleteScore(p)
    \/ Tick

SpecIsolation == InitIsolation /\ [][NextIsolation]_vars

----------------------------------------------------------------------------
\* Properties

\* the live block record of an address, read from the store itself
LiveBlock(ip) ==
    IF blockedKey(ip) \in DOMAIN kv /\ now < kv[blockedKey(ip)].expiresAt
    THEN kv[blockedKey(ip)].value.json
    ELSE Null

Forbidden(ip, details) ==
    [status |-> 403, via |-> "worker",
     body |-> [ok |-> FALSE, blocked |-> TRUE, ip |-> ip, details |-> details]]

\* invocation p is answered in this step, by a fetch that met no store failure
Decides(p) ==
    /\ procs[p].pc \in FetchAwaits
    /\ procs'[p].pc # procs[p].pc
    /\ ~procs'[p].logged

\* the pending block record of p is in the store for blockTtlSeconds from now
\* and p is answered 403 with it
BlockWritten(p) ==
    /\ procs'[p].pc = "done"
    /\ procs'[p].resp = Forbidden(procs[p].ip, procs[p].rec)
    /\ blockedKey(procs[p].ip) \in DOMAIN kv'
    /\ kv'[blockedKey(procs[p].ip)] =
          [value |-> [json |-> procs[p].rec], expiresAt |-> now + config.blockTtlSeconds]

\* a request without bot signals, as the inputs spell it
Plain(request) == request.ua = Mozilla /\ request.path \in {PathLogin, PathAny}

\* the weights of the signals a request carries, as the inputs spell them
SignalWeight(request) ==
    (IF request.path = PathWpLogin THEN 3 ELSE 0)
    + (IF request.ua \in {Curl, <<>>} THEN 2 ELSE 0)

\* C1: while a live block record exists for an address, every request from it
\* whose block lookup the store answers gets 403 with that record as details,
\* on any path and whatever its counters and score, without a store write;
\* this holds for automatic records and for records of the admin block.
C1_LiveRecordBlocks ==
    [][\A p \in Procs :
        (/\ procs[p].pc = "lookup"
         /\ Decides(p)
         /\ LiveBlock(procs[p].ip) # Null)
        => /\ procs'[p].pc = "done"
           /\ procs'[p].resp = Forbidden(procs[p].ip, LiveBlock(procs[p].ip))
           /\ kv' = kv]_vars

\* a request to an unprotected path is answered 403 with the record an earlier
\* burst block has left
C1_Witness ==
    \E p \in Procs :
        /\ procs[p].pc = "done"
        /\ procs[p].req.path = PathAny
        /\ procs[p].windowCount = 0
        /\ procs[p].resp.status = 403
        /\ procs[p].resp.body.details.reason = <<"rate_limit_burst">>
        /\ LiveBlock(procs[p].ip) = procs[p].resp.body.details

\* C2 as stated: of sequential plain requests of one address to a protected
\* path within one rate window, each of the first rateMaxRequests (window
\* count 1..rateMaxRequests) is forwarded to origin.
C2_FirstRequestsForwarded ==
    \A p \in Procs :
        (/\ procs[p].pc = "done"
         /\ ~procs[p].logged
         /\ Plain(procs[p].req)
         /\ procs[p].windowCount \in 1..config.rateMaxRequests)
        => procs[p].resp = originResponse

\* C2: a request whose window count is within rateMaxRequests passes the
\* window check, and is then forwarded unless the burst check or the bot scorer
\* blocks it; the request whose window count exceeds rateMaxRequests goes on to
\* write a block record with reason rate_limit_window, and once that record is
\* in the store with TTL blockTtlSeconds it is answered 403 with that record.
C2_WindowLimit ==
    [][\A p \in Procs :
        LET me == procs[p]
            me2 == procs'[p]
        IN /\ (me.pc = "windowPut" /\ Decides(p))
              => IF me2.windowCount > config.rateMaxRequests
                 THEN /\ me2.pc = "blockPut"
                      /\ me2.rec.reason = <<"rate_limit_window">>
                      /\ me2.rec.observedCount = me2.windowCount
                      /\ blockedKey(me.ip) \notin DOMAIN kv'
                 ELSE me2.pc = "burstGet"
           /\ (me.pc = "blockPut" /\ Decides(p)) => BlockWritten(p)
           /\ (Decides(p) /\ me2.pc = "done" /\ me2.windowCount > config.rateMaxRequests)
              => /\ me.pc = "blockPut"
                 /\ me.rec.reason = <<"rate_limit_window">>
           /\ (Decides(p) /\ me2.pc = "done" /\ me2.windowCount \in 1..config.rateMaxRequests)
              => \/ me2.resp = originResponse
                 \/ /\ me.pc = "blockPut"
                    /\ me.rec.reason \in {<<"rate_limit_burst">>, <<"bot_signature">>}]_vars

\* the third request of a window is answered 403 for the rate window while the
\* record it wrote is in the store
C2_Witness ==
    \E p \in Procs :
        /\ procs[p].pc = "done"
        /\ procs[p].windowCount = config.rateMaxRequests + 1
        /\ procs[p].resp.status = 403
        /\ procs[p].resp.body.details.reason = <<"rate_limit_window">>
        /\ procs[p].resp.body.details.observedCount = 3
        /\ LiveBlock(procs[p].ip) = procs[p].resp.body.details

\* C3: the bot scorer is entered only with a positive delta, puts the stored
\* score plus that delta, and blocks exactly when this cumulative score is at
\* least botScoreBlockThreshold; the block writes a record with reason
\* bot_signature and TTL blockTtlSeconds and answers 403 with it, on the very
\* request whose own delta meets the threshold.
C3_ScorerBlocksAtThreshold ==
    [][\A p \in Procs :
        LET me == procs[p]
            me2 == procs'[p]
            stored == IF botScoreKey(me.ip) \in DOMAIN kv
                      THEN parseInt(kv[botScoreKey(me.ip)].value).n ELSE 0
        IN /\ (me.pc = "burstPut" /\ Decides(p) /\ me2.burstCount <= config.burstMaxRequests)
              => IF SignalWeight(me.req) > 0
                 THEN me2.pc = "scoreGet"
                 ELSE me2.pc = "done" /\ me2.resp = originResponse
           /\ (me.pc = "scoreGet" /\ Decides(p))
              => me2.pc = "scorePut" /\ me2.next = stored + SignalWeight(me.req)
           /\ (me.pc = "scorePut" /\ Decides(p))
              => /\ kv'[botScoreKey(me.ip)].value = NumberToString(me.next)
                 /\ IF me.next >= config.botScoreBlockThreshold
                    THEN /\ me2.pc = "blockPut"
                         /\ me2.rec.reason = <<"bot_signature">>
                         /\ me2.rec.score = me.next
                         /\ me2.rec.scoreDelta = SignalWeight(me.req)
                    ELSE me2.pc = "done" /\ me2.resp = originResponse
           /\ (me.pc = "blockPut" /\ Decides(p)) => BlockWritten(p)]_vars

\* the first request of an address, a scanner's, is answered 403 for its own
\* delta of 5
C3_Witness ==
    \E p \in Procs :
        /\ procs[p].pc = "done"
        /\ procs[p].windowCount = 1
        /\ procs[p].burstCount = 1
        /\ procs[p].resp.status = 403
        /\ procs[p].resp.body.details.reason = <<"bot_signature">>
        /\ procs[p].resp.body.details.score = 5
        /\ procs[p].resp.body.details.scoreDelta = 5
        /\ LiveBlock(procs[p].ip) = procs[p].resp.body.details

\* the counter keys of the burst windows
IsBurstKey(key) == StartsWith(key, COUNTER_KEY_PREFIX \o <<"burst">>)

\* C4: a burst counter is written only by a request whose window count is
\* within rateMaxRequests; when the burst count it puts exceeds
\* burstMaxRequests the request goes on to write a block record with reason
\* rate_limit_burst, and once that record is in the store with TTL
\* blockTtlSeconds it is answered 403 with that record.
C4_BurstAfterWindow ==
    [][\A p \in Procs :
        LET me == procs[p]
            me2 == procs'[p]
        IN /\ (\E key \in DOMAIN kv' :
                  /\ IsBurstKey(key)
                  /\ key \in DOMAIN kv => kv'[key] # kv[key])
              => \E q \in Procs :
                    /\ procs[q].pc = "burstPut"
                    /\ procs[q].windowCount \in 1..config.rateMaxRequests
           /\ (me.pc \in {"burstGet", "burstPut"})
              => me.windowCount \in 1..config.rateMaxRequests
           /\ (me.pc = "burstPut" /\ Decides(p))
              => /\ kv'[me.key].value = NumberToString(me2.burstCount)
                 /\ IsBurstKey(me.key)
                 /\ (me2.burstCount > config.burstMaxRequests)
                    => /\ me2.pc = "blockPut"
                       /\ me2.rec.reason = <<"rate_limit_burst">>
                       /\ me2.rec.observedCount = me2.burstCount
                 /\ (me2.burstCount <= config.burstMaxRequests)
                    => me2.pc \in {"scoreGet", "done"}
           /\ (me.pc = "blockPut" /\ Decides(p)) => BlockWritten(p)]_vars

\* the second request of a second is answered 403 for the burst, within the
\* limit of the rate window
C4_Witness ==
    \E p \in Procs :
        /\ procs[p].pc = "done"
        /\ procs[p].windowCount = 2
        /\ procs[p].burstCount = 2
        /\ procs[p].resp.status = 403
        /\ procs[p].resp.body.details.reason = <<"rate_limit_burst">>
        /\ LiveBlock(procs[p].ip) = procs[p].resp.body.details

\* the client address headers that name no address, an invalid one, or the
\* allowlisted one
BypassHeaders ==
    {<<>>, <<" ">>, IpW, <<" ">> \o IpW \o <<" ">>} \cup InvalidIps

\* C5: a request whose client address is missing, invalid or allowlisted is
\* answered with the origin's response in the step that receives it, with no
\* store operation awaited and the store unchanged, whatever the store holds
\* for the address.
C5_BypassUninspected ==
    [][\A p \in Procs :
        (/\ procs[p].pc \in {"idle", "done"}
         /\ procs'[p] # procs[p]
         /\ procs'[p].req.path \in {PathLogin, PathWpLogin}
         /\ procs'[p].req.cfIp \in BypassHeaders)
        => /\ procs'[p].pc = "done"
           /\ procs'[p].resp = originResponse
           /\ ~procs'[p].logged
           /\ kv' = kv]_vars

\* a scanner's request from the allowlisted address is forwarded while a live
\* block record exists for that address
C5_Witness ==
    \E p \in Procs :
        /\ procs[p].pc = "done"
        /\ procs[p].req = Get(PathWpLogin, IpW, Curl)
        /\ procs[p].resp = originResponse
        /\ LiveBlock(IpW) # Null

\* C6: a non-admin request is answered with the origin's response or with a
\* 403 of the filter, never otherwise; with the origin's response when a store
\* operation of its inspection failed, and when the store binding is absent.
C6_FailOpen ==
    \A p \in Procs :
        (procs[p].pc = "done" /\ procs[p].req.path \in {PathLogin, PathWpLogin})
        => /\ \/ procs[p].resp = originResponse
              \/ /\ procs[p].resp.status = 403
                 /\ procs[p].resp.via = "worker"
                 /\ ~procs[p].logged
           /\ procs[p].logged => procs[p].resp = originResponse
           /\ ~env.BOTNET_KV => procs[p].resp = originResponse /\ DOMAIN kv = {}

\* the write of the block record of a burst fails and the request is
\* forwarded
C6_Witness ==
    \E p \in Procs :
        /\ procs[p].pc = "done"
        /\ procs[p].logged
        /\ procs[p].burstCount > config.burstMaxRequests
        /\ procs[p].resp = originResponse
        /\ LiveBlock(procs[p].ip) = Null

\* C7 as stated, for an address blocked for a burst: the plain request
\* of the address that follows the completed unblock which removed that block
\* record is forwarded and answered with the origin's 200.
C7_ForwardedAfterUnblock ==
    \A p \in Procs :
        (/\ procs[p].pc = "done"
         /\ procs[p].afterUnblock = <<"rate_limit_burst">>
         /\ Plain(procs[p].req)
         /\ ~procs[p].logged)
        => procs[p].resp = originResponse

PositiveInteger(value) ==
    IF /\ value.t = "number"
       /\ Len(value.s) > 0
       /\ \A i \in 1..Len(value.s) : value.s[i] \in {"0", "1", "2", "3", "4", "5", "6", "7", "8", "9"}
    THEN parseInt(value.s).n
    ELSE 0

\* C9 as stated: an authorized block with a valid ip puts a record with actor
\* admin_api and the supplied reason, or "manual", under the TTL the body
\* supplies when that is a positive integer and under blockTtlSeconds
\* otherwise, and changes no other entry of the store.
C9_BlockTtl ==
    [][\A p \in Procs :
        LET me == procs[p]
            body == me.req.body
            ttl == IF PositiveInteger(body.ttlSeconds) > 0
                   THEN PositiveInteger(body.ttlSeconds)
                   ELSE config.blockTtlSeconds
        IN (me.pc = "adminBlockPut" /\ procs'[p].pc = "done" /\ procs'[p].resp.status = 200)
           => /\ DOMAIN kv' = DOMAIN kv \cup {blockedKey(me.ip)}
              /\ \A key \in DOMAIN kv : key # blockedKey(me.ip) => kv'[key] = kv[key]
              /\ kv'[blockedKey(me.ip)].value.json.actor = "admin_api"
              /\ kv'[blockedKey(me.ip)].value.json.reason
                    \in {body.reason.s, Trim(body.reason.s), <<"manual">>}
              /\ kv'[blockedKey(me.ip)].expiresAt = now + ttl]_vars

\* C10: an authorized unblock of a valid ip that the store serves deletes the
\* block record and the bot score and nothing else, and answers
\* 200 {ok: true, blocked: false, ip} whether or not either existed; with
\* neither in the store, as after an unblock, it leaves the store as it is.
C10_UnblockIdempotent ==
    [][\A p \in Procs :
        LET me == procs[p]
            me2 == procs'[p]
            served == me2.pc = "done" => me2.resp.via # "uncaught"
        IN /\ (me.pc = "unblockBlock" /\ me2.pc # me.pc /\ served)
              => /\ me2.pc = "unblockScore"
                 /\ DOMAIN kv' = DOMAIN kv \ {blockedKey(me.ip)}
                 /\ \A key \in DOMAIN kv' : kv'[key] = kv[key]
           /\ (me.pc = "unblockScore" /\ me2.pc # me.pc /\ served)
              => /\ me2.resp = [status |-> 200, via |-> "worker",
                                body |-> [ok |-> TRUE, blocked |-> FALSE, ip |-> me.ip]]
                 /\ DOMAIN kv' = DOMAIN kv \ {blockedKey(me.ip), botScoreKey(me.ip)}
                 /\ \A key \in DOMAIN kv' : kv'[key] = kv[key]
           /\ (/\ me.pc \in {"unblockBlock", "unblockScore"}
               /\ me2.pc # me.pc
               /\ blockedKey(me.ip) \notin DOMAIN kv
               /\ botScoreKey(me.ip) \notin DOMAIN kv)
              => kv' = kv]_vars

\* an unblock that follows the unblock of a blocked address is answered 200
C10_Witness ==
    \E p \in Procs :
        /\ procs[p].pc = "done"
        /\ procs[p].afterUnblock # <<>>
        /\ procs[p].req = AdminCall("POST", "unblock", <<>>, GoodAuth, JustIp(IpA))
        /\ procs[p].resp.status = 200

BadRequest(error) ==
    [status |-> 400, via |-> "worker", body |-> [ok |-> FALSE, error |-> error]]

C12_ExplicitServerError ==
    \A p \in Procs :
        (/\ procs[p].pc = "done"
         /\ Len(procs[p].req.path) = 4
         /\ procs[p].req.path[2] = "__botnet")
        => /\ procs[p].resp.via = "worker"
           /\ procs[p].resp.status \in {200, 400, 401, 404, 500}
           /\ ~env.BOTNET_KV =>
                 procs[p].resp = [status |-> 500, via |-> "worker",
                                  body |-> [ok |-> FALSE, error |-> "BOTNET_KV binding is missing"]]

Healthy ==
    [status |-> 200, via |-> "worker", body |-> [ok |-> TRUE, service |-> "botnet-guard"]]

\* C13 as stated: GET health has no failure outcome; under any Authorization
\* header it is answered 200 with the liveness payload.
C13_HealthNeverFails ==
    \A p \in Procs :
        (/\ procs[p].pc = "done"
         /\ procs[p].req.method = "GET"
         /\ procs[p].req.path = <<"/", "__botnet", "/", "health">>)
        => procs[p].resp = Healthy

\* C13: GET health is answered in the step that receives it, with no store
\* operation awaited and the store unchanged, whatever its Authorization
\* header and whether or not a secret is configured: with 200 and the liveness
\* payload when the store is bound, with 500 "BOTNET_KV binding is missing"
\* when it is not.
C13_Health ==
    [][\A p \in Procs :
        LET request == procs'[p].req
        IN (/\ procs[p].pc \in {"idle", "done"}
            /\ procs'[p] # procs[p]
            /\ request.method = "GET"
            /\ request.path = <<"/", "__botnet", "/", "health">>)
           => /\ procs'[p].pc = "done"
              /\ kv' = kv
              /\ procs'[p].resp =
                    IF env.BOTNET_KV
                    THEN Healthy
                    ELSE [status |-> 500, via |-> "worker",
                          body |-> [ok |-> FALSE, error |-> "BOTNET_KV binding is missing"]]]_vars

\* GET health with a wrong token is answered 200 while the store holds a
\* block record
C13_Witness ==
    \E p \in Procs :
        /\ procs[p].pc = "done"
        /\ procs[p].req = AdminCall("GET", "health", <<>>, Bearer("wrong-token"), NoBody)
        /\ procs[p].resp = Healthy
        /\ LiveBlock(IpA) # Null

\* the block records in the store
StoredRecords ==
    {kv[key].value.json : key \in {k \in DOMAIN kv : StartsWith(k, BLOCK_KEY_PREFIX)}}

\* C14 as stated: every stored block record has one of the reasons
\* rate_limit_window, rate_limit_burst, bot_signature, manual.
C14_ReasonEnum ==
    \A record \in StoredRecords :
        record.reason \in {<<"rate_limit_window">>, <<"rate_limit_burst">>,
                           <<"bot_signature">>, <<"manual">>}

\* C14: every stored block record without actor (one of the decision engine)
\* has one of the reasons rate_limit_window, rate_limit_burst, bot_signature;
\* every other stored record has the actor admin_api and as reason a text that
\* is not blank and has no blanks around it (the one the body supplied, or
\* manual).
C14_StoredReasons ==
    \A record \in StoredRecords :
        IF "actor" \in DOMAIN record
        THEN /\ record.actor = "admin_api"
             /\ Len(record.reason) > 0
             /\ record.reason[1] # " "
             /\ record.reason[Len(record.reason)] # " "
             /\ record.reason \in {<<"manual">>, <<"manual-test">>, <<"abuse">>}
        ELSE record.reason \in {<<"rate_limit_window">>, <<"rate_limit_burst">>,
                                <<"bot_signature">>}

\* the store holds the record of an admin block with the reason the body
\* supplied
C14_Witness ==
    \E record \in StoredRecords :
        /\ "actor" \in DOMAIN record
        /\ record.reason = <<"manual-test">>

\* the count stored for the one rate window of the address
StoredWindowCount ==
    LET key == <<"count:", "window", ":">> \o IpA \o <<":", "0">>
    IN IF key \in DOMAIN kv THEN parseInt(kv[key].value).n ELSE 0

\* the invocations whose increment of the window counter has returned
Incremented == {p \in Procs : procs[p].windowCount > 0}

\* C15: the count stored for a bucket, and every count incrementCounter has
\* returned for it, is at most the number of increments made against the
\* bucket (checked for the rate window, with invocations of one address in
\* flight together and each serving one request).
C15_CountAtMostIncrements ==
    /\ StoredWindowCount <= Cardinality(Incremented)
    /\ \A p \in Procs : procs[p].windowCount <= Cardinality(Incremented)

\* with rateMaxRequests = 1, two requests that both read the absent counter
\* are both forwarded; the stored count is 1 and no block record is written
C15_Witness ==
    /\ Cardinality({p \in Procs : /\ procs[p].pc = "done"
                                   /\ procs[p].windowCount = 1
                                   /\ procs[p].resp = originResponse})
          > config.rateMaxRequests
    /\ StoredWindowCount = 1
    /\ LiveBlock(IpA) = Null

\* C16 as stated: every write to the stored bot score of an address stores a
\* value at least as large as the one stored before, also when requests of the
\* address are scored concurrently.
C16_ScoreNeverDecreases ==
    [][(botScoreKey(IpA) \in DOMAIN kv /\ botScoreKey(IpA) \in DOMAIN kv')
       => parseInt(kv'[botScoreKey(IpA)].value).n >= parseInt(kv[botScoreKey(IpA)].value).n]_vars

\* the keys whose entry (value or expiry) a step creates, changes or removes
ChangedKeys ==
    {k \in DOMAIN kv \cup DOMAIN kv' :
        k \notin DOMAIN kv \/ k \notin DOMAIN kv' \/ kv'[k] # kv[k]}

\* the counter keys of an address in a scope, one for each bucket of time
BucketKeys(ip, scope) == {counterKey(ip, scope, id) : id \in 0..MaxTime}

\* the order of the awaits of one request: lookup, rate window, burst, bot
\* scorer, with the block and the answers as the only ways out
CheckOrder ==
    {<<"lookup", "done">>, <<"lookup", "windowGet">>, <<"windowGet", "windowPut">>,
     <<"windowPut", "blockPut">>, <<"windowPut", "burstGet">>, <<"burstGet", "burstPut">>,
     <<"burstPut", "blockPut">>, <<"burstPut", "scoreGet">>, <<"burstPut", "done">>,
     <<"scoreGet", "scorePut">>, <<"scorePut", "blockPut">>, <<"scorePut", "done">>,
     <<"blockPut", "done">>}

\* C17: a request runs its checks in the order block lookup, rate window,
\* burst, bot scorer, each step writing only the key of its own check; the
\* first check that fires ends the checks: a window count above
\* rateMaxRequests leads straight to the block with reason rate_limit_window,
\* before any burst counter or score is touched, a burst count above
\* burstMaxRequests leads straight to the block with reason rate_limit_burst,
\* before any score is touched and whatever signals the request carries, and
\* the put of the block record is the last step of the request, so a request
\* writes at most one block record.
C17_FirstPositiveTerminal ==
    [][\A p \in Procs :
        LET me == procs[p]
            me2 == procs'[p]
        IN Decides(p) =>
            /\ <<me.pc, me2.pc>> \in CheckOrder
            /\ me.pc \in {"lookup", "windowGet", "burstGet", "scoreGet"} => kv' = kv
            /\ me.pc = "windowPut"
               => /\ ChangedKeys \subseteq {me.key}
                  /\ me.key \in BucketKeys(me.ip, "window")
                  /\ me.burstCount = 0
                  /\ me.next > config.rateMaxRequests
                     => /\ me2.pc = "blockPut"
                        /\ me2.rec.reason = <<"rate_limit_window">>
                        /\ me2.burstCount = 0
            /\ me.pc = "burstPut"
               => /\ ChangedKeys \subseteq {me.key}
                  /\ me.key \in BucketKeys(me.ip, "burst")
                  /\ me.next > config.burstMaxRequests
                     => /\ me2.pc = "blockPut"
                        /\ me2.rec.reason = <<"rate_limit_burst">>
            /\ me.pc = "scorePut"
               => /\ ChangedKeys \subseteq {botScoreKey(me.ip)}
                  /\ me2.pc = "blockPut" => me2.rec.reason = <<"bot_signature">>
            /\ me.pc = "blockPut"
               => /\ ChangedKeys \subseteq {blockedKey(me.ip)}
                  /\ me2.pc = "done"
                  /\ me2.resp = Forbidden(me.ip, me.rec)
                  /\ me.rec.reason = <<"rate_limit_window">> => me.burstCount = 0]_vars

\* a scanner's request is answered 403 for the rate window: the burst counter
\* of its second still holds the count of the request before it, and no score
\* is stored
C17_Witness ==
    \E p \in Procs :
        /\ procs[p].pc = "done"
        /\ procs[p].req = Get(PathWpLogin, IpA, Curl)
        /\ procs[p].resp.status = 403
        /\ procs[p].resp.body.details.reason = <<"rate_limit_window">>
        /\ procs[p].burstCount = 0
        /\ counterKey(IpA, "burst", now) \in DOMAIN kv
        /\ kv[counterKey(IpA, "burst", now)].value = NumberToString(1)
        /\ botScoreKey(IpA) \notin DOMAIN kv
        /\ LiveBlock(IpA) = procs[p].resp.body.details

\* C18: a request from an address with a live block record writes nothing to
\* the store: neither the step that receives it nor the step that ends its
\* block lookup, answered or failed, changes any entry, so the counters, the
\* score and the record with its expiry stay as they were, and the request is
\* over with that step, no counter incremented.
C18_BlockedWritesNothing ==
    [][\A p \in Procs :
        LET me == procs[p]
            me2 == procs'[p]
        IN /\ (Resting(p) /\ me2 # me /\ me2.pc = "lookup")
              => /\ ChangedKeys = {}
                 /\ me2.windowCount = 0
                 /\ me2.burstCount = 0
           /\ (me.pc = "lookup" /\ me2 # me /\ LiveBlock(me.ip) # Null)
              => /\ ChangedKeys = {}
                 /\ kv'[blockedKey(me.ip)].expiresAt = kv[blockedKey(me.ip)].expiresAt
                 /\ me2.pc = "done"
                 /\ me2.windowCount = 0
                 /\ me2.burstCount = 0]_vars

\* a request to the protected path is answered 403 with the record of a block
\* for the rate window: the window counter still holds the count that caused
\* the block and the record still expires blockTtlSeconds after it was written
C18_Witness ==
    \E p \in Procs :
        /\ procs[p].pc = "done"
        /\ procs[p].req = Get(PathLogin, IpA, Mozilla)
        /\ procs[p].windowCount = 0
        /\ procs[p].resp.status = 403
        /\ procs[p].resp.body.details.reason = <<"rate_limit_window">>
        /\ LiveBlock(IpA) = procs[p].resp.body.details
        /\ StoredWindowCount = procs[p].resp.body.details.observedCount
        /\ kv[blockedKey(IpA)].expiresAt
              = procs[p].resp.body.details.blockedAt + config.blockTtlSeconds

\* the paths of the inputs that the prefix /api does not cover
Uncovered(request) == request.path \in {PathAny, PathWpRoot}

\* C19: when the block lookup of a request finds no live record and the store
\* answers, a request to a path that /api does not cover is, without the
\* sentinel * in the protected prefixes, answered with the origin's response
\* in that step, the store unchanged and no counter incremented, whatever bot
\* signals it carries; with the sentinel in the list the request goes on to
\* the rate window like a request to a covered path.
C19_UncoveredPathForwarded ==
    [][\A p \in Procs :
        LET me == procs[p]
            me2 == procs'[p]
        IN (/\ me.pc = "lookup"
            /\ Decides(p)
            /\ LiveBlock(me.ip) = Null)
           => IF Uncovered(me.req) /\ env # SentinelEnv
              THEN /\ me2.pc = "done"
                   /\ me2.resp = originResponse
                   /\ me2.windowCount = 0
                   /\ me2.burstCount = 0
                   /\ ChangedKeys = {}
              ELSE /\ me2.pc = "windowGet"
                   /\ me2.key \in BucketKeys(me.ip, "window")]_vars

\* without the sentinel a request with a bad user agent to an uncovered path
\* is forwarded: the window counter holds the one request to the protected
\* path, and there is no score and no block record
C19_Witness ==
    \E p \in Procs :
        /\ env = BaseEnv
        /\ procs[p].pc = "done"
        /\ procs[p].req = Get(PathAny, IpA, Curl)
        /\ procs[p].resp = originResponse
        /\ ~procs[p].logged
        /\ procs[p].windowCount = 0
        /\ StoredWindowCount = 1
        /\ botScoreKey(IpA) \notin DOMAIN kv
        /\ LiveBlock(IpA) = Null

\* C20: for a request without a suspicious path and with a user agent that is
\* not a bad one (delta 0), the step that ends the burst check within the
\* limit also ends the request: it is answered with the origin's response
\* (shouldBlock false), no get or put of the score is awaited, and the score
\* entry, stored or absent, is left as it was, value and expiry.
C20_ZeroDeltaNoOp ==
    [][\A p \in Procs :
        LET me == procs[p]
            me2 == procs'[p]
        IN (/\ me.pc = "burstPut"
            /\ Decides(p)
            /\ me2.burstCount <= config.burstMaxRequests
            /\ SignalWeight(me.req) = 0)
           => /\ me2.pc = "done"
              /\ me2.resp = originResponse
              /\ ChangedKeys \subseteq {me.key}
              /\ IsBurstKey(me.key)
              /\ botScoreKey(me.ip) \in DOMAIN kv' <=> botScoreKey(me.ip) \in DOMAIN kv
              /\ botScoreKey(me.ip) \in DOMAIN kv
                 => kv'[botScoreKey(me.ip)] = kv[botScoreKey(me.ip)]]_vars

\* a browser's request to the login page is forwarded in the second after a
\* score was stored: the score still expires botScoreTtlSeconds after time 0
C20_Witness ==
    \E p \in Procs :
        /\ now = 1
        /\ procs[p].pc = "done"
        /\ procs[p].req = Get(PathLogin, IpA, Mozilla)
        /\ procs[p].resp = originResponse
        /\ ~procs[p].logged
        /\ procs[p].burstCount > 0
        /\ counterKey(IpA, "burst", 1) \in DOMAIN kv
        /\ kv[counterKey(IpA, "burst", 1)].value = NumberToString(procs[p].burstCount)
        /\ botScoreKey(IpA) \in DOMAIN kv
        /\ kv[botScoreKey(IpA)].value = NumberToString(3)
        /\ kv[botScoreKey(IpA)].expiresAt = config.botScoreTtlSeconds

\* C21: every step of a request under the admin prefix, from its receipt on,
\* belongs to the admin handler: the request never awaits a lookup, a counter
\* or a score of the filter, it changes no counter, it changes a score only
\* by deleting it, and it is answered neither with a 403 nor with the
\* origin's response, even when the caller's address has a live block record.
C21_AdminNotInspected ==
    [][\A p \in Procs :
        LET me2 == procs'[p]
        IN (me2 # procs[p] /\ StartsWith(me2.req.path, <<"/", "__botnet">>))
           => /\ me2.pc \in AdminAwaits \cup {"done"}
              /\ me2.windowCount = 0
              /\ me2.burstCount = 0
              /\ \A k \in ChangedKeys :
                    /\ ~StartsWith(k, COUNTER_KEY_PREFIX)
                    /\ StartsWith(k, BOT_SCORE_KEY_PREFIX) => k \notin DOMAIN kv'
              /\ me2.pc = "done"
                 => /\ me2.resp.status # 403
                    /\ me2.resp.via # "origin"]_vars

\* a status call with a bad user agent from the address a bot block is live
\* for is answered 200 with that record
C21_Witness ==
    \E p \in Procs :
        /\ procs[p].pc = "done"
        /\ procs[p].req = Request("GET", Admin("status"), IpA, IpA, Curl, GoodAuth, NoBody)
        /\ procs[p].resp.status = 200
        /\ procs[p].resp.body.blocked
        /\ procs[p].resp.body.details.reason = <<"bot_signature">>
        /\ LiveBlock(IpA) = procs[p].resp.body.details

\* the scope and the length of the window of the counter an invocation awaits
CounterScope(pc) == IF pc \in {"windowGet", "windowPut"} THEN "window" ELSE "burst"

CounterSeconds(pc) ==
    IF pc \in {"windowGet", "windowPut"}
    THEN config.rateWindowSeconds ELSE config.burstWindowSeconds

\* C22: an increment takes the key of scope, address and the bucket
\* floor(now / windowSeconds) of the moment it starts; its get counts an
\* absent entry as 0, so the first increment of a bucket puts and returns 1
\* whatever the other buckets hold; its put writes that one entry, with an
\* expiry windowSeconds + 5 after the put, and leaves every other entry, the
\* earlier buckets included, as it was.
C22_FixedWindowBuckets ==
    [][\A p \in Procs :
        LET me == procs[p]
            me2 == procs'[p]
        IN Decides(p) =>
            /\ me2.pc \in {"windowGet", "burstGet"}
               => me2.key = counterKey(me.ip, CounterScope(me2.pc), now \div CounterSeconds(me2.pc))
            /\ me.pc \in {"windowGet", "burstGet"}
               => /\ me2.key = me.key
                  /\ me2.next = IF me.key \in DOMAIN kv
                                THEN parseInt(kv[me.key].value).n + 1 ELSE 1
                  /\ kv' = kv
            /\ me.pc \in {"windowPut", "burstPut"}
               => /\ kv'[me.key] = [value |-> NumberToString(me.next),
                                    expiresAt |-> now + CounterSeconds(me.pc) + 5]
                  /\ ChangedKeys \subseteq {me.key}
                  /\ IF me.pc = "windowPut"
                     THEN me2.windowCount = me.next
                     ELSE me2.burstCount = me.next]_vars

\* the first request of second 1 is counted 1 in the burst bucket of that
\* second, while the bucket of second 0 still holds its count of 2
C22_Witness ==
    \E p \in Procs :
        /\ now = 1
        /\ procs[p].pc = "done"
        /\ procs[p].windowCount = 3
        /\ procs[p].burstCount = 1
        /\ procs[p].resp = originResponse
        /\ counterKey(IpA, "burst", 0) \in DOMAIN kv
        /\ kv[counterKey(IpA, "burst", 0)] = [value |-> NumberToString(2), expiresAt |-> 6]
        /\ counterKey(IpA, "burst", 1) \in DOMAIN kv
        /\ kv[counterKey(IpA, "burst", 1)] = [value |-> NumberToString(1), expiresAt |-> 7]

\* C23 as stated: while a block record written by the admin block is live,
\* the entry of that record, value and expiry, is changed or removed only by
\* a step of an admin block, by a step of an admin unblock, or by the clock.
C23_ManualRecordKept ==
    [][(/\ blockedKey(IpA) \in DOMAIN kv
        /\ "actor" \in DOMAIN kv[blockedKey(IpA)].value.json
        /\ blockedKey(IpA) \in ChangedKeys)
       => \/ now' # now
          \/ \E p \in Procs :
                /\ procs[p].pc \in {"adminBlockPut", "unblockBlock"}
                /\ procs'[p] # procs[p]]_vars

\* C24: an unblock changes the store in two steps only: the first removes the
\* block record of the given address, the second its score entry, and every
\* other entry, the window and burst counters of the address included, is
\* left as it was; the request that follows the unblock is therefore counted
\* on top of the counts stored before.
C24_UnblockKeepsCounters ==
    [][\A p \in Procs :
        LET me == procs[p]
            me2 == procs'[p]
        IN /\ (me2 # me /\ me2.req.path = Admin("unblock"))
              => /\ me.pc = "unblockBlock" => ChangedKeys \subseteq {blockedKey(me.ip)}
                 /\ me.pc = "unblockScore" => ChangedKeys \subseteq {botScoreKey(me.ip)}
                 /\ me.pc \notin {"unblockBlock", "unblockScore"} => ChangedKeys = {}
                 /\ (me.pc = "unblockBlock" /\ me2.pc = "unblockScore")
                    => blockedKey(me.ip) \notin DOMAIN kv'
                 /\ (me.pc = "unblockScore" /\ me2.resp.status = 200)
                    => botScoreKey(me.ip) \notin DOMAIN kv'
           /\ (me.pc = "windowGet" /\ Decides(p) /\ me.afterUnblock # <<>>)
              => me2.next = (IF me.key \in DOMAIN kv THEN parseInt(kv[me.key].value).n ELSE 0) + 1]_vars

\* the request that follows the unblock of an address blocked for the rate
\* window is counted as the fourth of the window and blocked again
C24_Witness ==
    \E p \in Procs :
        /\ procs[p].pc = "done"
        /\ procs[p].afterUnblock = <<"rate_limit_window">>
        /\ procs[p].windowCount = 4
        /\ procs[p].resp.status = 403
        /\ procs[p].resp.body.details.reason = <<"rate_limit_window">>
        /\ procs[p].resp.body.details.observedCount = 4

\* C25: a non-admin request is answered 403 only by the step that ends its
\* block lookup while a live record of its address is stored, with that
\* record, or by the step whose put of the block record the store has
\* answered, with the record then in the store; a step of a non-admin request
\* that changes the block record of its address answers 403, so a request
\* answered with the origin's response has written no block record.
C25_BlockedIffRecord ==
    [][\A p \in Procs :
        LET me == procs[p]
            me2 == procs'[p]
        IN (me2 # me /\ ~StartsWith(me2.req.path, <<"/", "__botnet">>))
           => /\ (me2.pc = "done" /\ me2.resp.status = 403)
                 => \/ /\ me.pc = "lookup"
                       /\ LiveBlock(me.ip) # Null
                       /\ me2.resp = Forbidden(me.ip, LiveBlock(me.ip))
                    \/ /\ me.pc = "blockPut"
                       /\ BlockWritten(p)
              /\ blockedKey(me2.ip) \in ChangedKeys
                 => /\ me.pc = "blockPut"
                    /\ me2.pc = "done"
                    /\ me2.resp.status = 403
              /\ (me2.pc = "done" /\ me2.resp.status # 403)
                 => /\ me2.resp = originResponse
                    /\ blockedKey(me2.ip) \notin ChangedKeys]_vars

\* a request is answered 403 for a burst with the record it has itself
\* written, which is in the store for blockTtlSeconds
C25_Witness ==
    \E p \in Procs :
        /\ procs[p].pc = "done"
        /\ ~procs[p].logged
        /\ procs[p].burstCount > config.burstMaxRequests
        /\ procs[p].resp.status = 403
        /\ procs[p].resp.body.details.observedCount = procs[p].burstCount
        /\ blockedKey(procs[p].ip) \in DOMAIN kv
        /\ kv[blockedKey(procs[p].ip)] =
              [value |-> [json |-> procs[p].resp.body.details],
               expiresAt |-> procs[p].resp.body.details.blockedAt + config.blockTtlSeconds]

\* C26: a request without a bot signal never awaits the score, never holds a
\* block record with reason bot_signature to write, and is never answered 403
\* with such a record of its own checks, whatever score is stored for its
\* address.
C26_NoSignalNoBotBlock ==
    \A p \in Procs :
        (procs[p].pc \in FetchAwaits \cup {"done"} /\ SignalWeight(procs[p].req) = 0)
        => /\ procs[p].pc \notin {"scoreGet", "scorePut"}
           /\ procs[p].pc = "blockPut" => procs[p].rec.reason # <<"bot_signature">>
           /\ (procs[p].pc = "done" /\ procs[p].resp.status = 403 /\ procs[p].windowCount > 0)
              => procs[p].resp.body.details.reason # <<"bot_signature">>

\* a browser's request to the login page is forwarded in second 1: the bot
\* block of second 0 has expired and the stored score is at the threshold
C26_Witness ==
    \E p \in Procs :
        /\ now = 1
        /\ procs[p].pc = "done"
        /\ procs[p].req = Get(PathLogin, IpA, Mozilla)
        /\ procs[p].burstCount > 0
        /\ ~procs[p].logged
        /\ procs[p].resp = originResponse
        /\ LiveBlock(IpA) = Null
        /\ botScoreKey(IpA) \in DOMAIN kv
        /\ parseInt(kv[botScoreKey(IpA)].value).n >= config.botScoreBlockThreshold

\* the entries of the store whose key carries the address
EntriesOf(store, ip) == {k \in DOMAIN store : Includes(k, ip)}

\* C27: whatever the interleaving, a step of a request of an address, or of
\* an admin call naming it, awaits a key of that address only and changes
\* entries of that address only: the block record, the counters and the score
\* of the other address are the same before and after the step.
C27_AddressIsolation ==
    [][\A p \in Procs :
        LET me2 == procs'[p]
        IN me2 # procs[p]
           => /\ me2.pc \in FetchAwaits \cup AdminAwaits => Includes(me2.key, me2.ip)
              /\ \A k \in ChangedKeys : Includes(k, me2.ip)
              /\ \A other \in {IpA, IpB} \ {me2.ip} :
                    /\ EntriesOf(kv', other) = EntriesOf(kv, other)
                    /\ \A k \in EntriesOf(kv, other) : kv'[k] = kv[k]]_vars

\* the scanner of one address is answered 403 and has its score and record
\* stored, while the other address has been counted once and forwarded, with
\* no score and no record of its own
C27_Witness ==
    \E p, q \in Procs :
        /\ procs[p].pc = "done"
        /\ procs[p].req = Get(PathWpLogin, IpA, Curl)
        /\ procs[p].resp.status = 403
        /\ LiveBlock(IpA) = procs[p].resp.body.details
        /\ botScoreKey(IpA) \in DOMAIN kv
        /\ procs[q].pc = "done"
        /\ procs[q].req = Get(PathLogin, IpB, Mozilla)
        /\ procs[q].resp = originResponse
        /\ procs[q].windowCount = 1
        /\ procs[q].burstCount = 1
        /\ LiveBlock(IpB) = Null
        /\ botScoreKey(IpB) \notin DOMAIN kv
        /\ Cardinality(EntriesOf(kv, IpB)) = 2

====
